---- MODULE Spec2Model ----
(***************************************************************************)
(* A model of the Russian natural-language calculator src/calc_ru.py:      *)
(* tokenize_expression -> shunting_yard_with_numbers -> evaluate_rpn ->    *)
(* fraction_to_mixed_and_words, driven by calc.                            *)
(*                                                                         *)
(* Words are written in Latin transliteration (the module text is ASCII):  *)
(* "nol" is the numeral 0, "pyat" the numeral 5, "skobka otkryvaetsya"     *)
(* the open parenthesis, and so on; the two-letter ending stripped first   *)
(* by parse_fractional_descriptor is "yh".  An input is the list of words  *)
(* of the lower-cased, whitespace-normalised expression (lines 577-582).   *)
(* Indices are 0-based as in the source; a sequence s is read at s[i + 1]. *)
(***************************************************************************)
EXTENDS Integers, Sequences, FiniteSets, TLC

\* ------------------------------------------------------------------ lexicon

SIMPLE_NUM ==
    ("nol" :> 0) @@ ("odin" :> 1) @@ ("odna" :> 1) @@ ("dva" :> 2) @@ ("dve" :> 2)
    @@ ("tri" :> 3) @@ ("chetyre" :> 4) @@ ("pyat" :> 5) @@ ("shest" :> 6)
    @@ ("sem" :> 7) @@ ("vosem" :> 8) @@ ("devyat" :> 9) @@ ("desyat" :> 10)
    @@ ("odinnadtsat" :> 11) @@ ("dvenadtsat" :> 12) @@ ("trinadtsat" :> 13)
    @@ ("chetyrnadtsat" :> 14) @@ ("pyatnadtsat" :> 15) @@ ("shestnadtsat" :> 16)
    @@ ("semnadtsat" :> 17) @@ ("vosemnadtsat" :> 18) @@ ("devyatnadtsat" :> 19)

TENS ==
    ("dvadtsat" :> 20) @@ ("tridtsat" :> 30) @@ ("sorok" :> 40)
    @@ ("pyatdesyat" :> 50) @@ ("shestdesyat" :> 60) @@ ("semdesyat" :> 70)
    @@ ("vosemdesyat" :> 80) @@ ("devyanosto" :> 90)

HUNDREDS ==
    ("sto" :> 100) @@ ("dvesti" :> 200) @@ ("trista" :> 300)
    @@ ("chetyresta" :> 400) @@ ("pyatsot" :> 500) @@ ("shestsot" :> 600)
    @@ ("semsot" :> 700) @@ ("vosemsot" :> 800) @@ ("devyatsot" :> 900)

SCALES ==
    ("tysyacha" :> 1000) @@ ("tysyachi" :> 1000) @@ ("tysyach" :> 1000)
    @@ ("million" :> 1000000) @@ ("milliona" :> 1000000)
    @@ ("millionov" :> 1000000)

DECIMAL_DENOMINATORS ==
    ("sotaya" :> 100) @@ ("sotyh" :> 100) @@ ("sotye" :> 100)
    @@ ("tysyachnaya" :> 1000) @@ ("tysyachnyh" :> 1000)
    @@ ("tysyachnye" :> 1000)

ORDINAL_DENOMINATORS ==
    ("vtoraya" :> 2) @@ ("vtoruyu" :> 2) @@ ("vtoroy" :> 2) @@ ("vtoryh" :> 2)
    @@ ("tretya" :> 3) @@ ("tretyu" :> 3) @@ ("tretih" :> 3)
    @@ ("chetvertaya" :> 4) @@ ("chetvertuyu" :> 4) @@ ("chetvertyh" :> 4)
    @@ ("pyataya" :> 5) @@ ("pyatuyu" :> 5) @@ ("pyatyh" :> 5)
    @@ ("shestaya" :> 6) @@ ("shestuyu" :> 6) @@ ("shestyh" :> 6)
    @@ ("sedmaya" :> 7) @@ ("sedmuyu" :> 7) @@ ("sedmyh" :> 7)
    @@ ("vosmaya" :> 8) @@ ("vosmuyu" :> 8) @@ ("vosmyh" :> 8)
    @@ ("devyataya" :> 9) @@ ("devyatuyu" :> 9) @@ ("devyatyh" :> 9)
    @@ ("desyataya" :> 10) @@ ("desyatuyu" :> 10) @@ ("desyatyh" :> 10)
    @@ DECIMAL_DENOMINATORS

\* symbol, precedence, assoc of every operator phrase
OPERATORS ==
    ("plus" :> [symbol |-> "+", precedence |-> 1, assoc |-> "left"])
    @@ ("minus" :> [symbol |-> "-", precedence |-> 1, assoc |-> "left"])
    @@ ("umnozhit" :> [symbol |-> "*", precedence |-> 2, assoc |-> "left"])
    @@ ("razdelit" :> [symbol |-> "/", precedence |-> 2, assoc |-> "left"])
    @@ ("ostatok ot deleniya" :>
            [symbol |-> "%", precedence |-> 2, assoc |-> "left"])
    @@ ("v stepeni" :> [symbol |-> "^", precedence |-> 3, assoc |-> "right"])

FUNCTIONS == {"sinus", "kosinus", "tangens"}

COMBINATORICS == {"perestanovok", "razmeshcheniy", "sochetaniy"}

FILLER_WORDS == {"na"}

\* The phrases in the order the tokenizer tries them, each as its words.
PHRASE_TOKENS ==
    << <<"ostatok", "ot", "deleniya">>, <<"skobka", "otkryvaetsya">>,
       <<"skobka", "zakryvaetsya">>, <<"v", "stepeni">>, <<"sinus", "ot">>,
       <<"kosinus", "ot">>, <<"tangens", "ot">>, <<"perestanovok", "iz">>,
       <<"razmeshcheniy", "iz">>, <<"sochetaniy", "iz">>, <<"plus">>,
       <<"minus">>, <<"umnozhit">>, <<"razdelit">> >>

\* The endings parse_fractional_descriptor strips from a denominator word.
ENDINGS == <<"yh", "aya", "oe", "ih", "uyu", "iy", "oy", "yy", "ih">>

\* ---------------------------------------------------------------- rationals
\* A Fraction is <<numerator, denominator>>, reduced, denominator > 0.

Abs(n) == IF n < 0 THEN -n ELSE n

RECURSIVE Gcd(_, _)
Gcd(a, b) == IF b = 0 THEN a ELSE Gcd(b, a % b)

\* Fraction(n, d) for d # 0
Fraction(n, d) ==
    LET g == Gcd(Abs(n), Abs(d))
        s == IF d < 0 THEN -1 ELSE 1
    IN  <<(s * n) \div g, (s * d) \div g>>

Zero == <<0, 1>>

One == <<1, 1>>

\* A value that went through float and limit_denominator(10 ** 6), or whose
\* operands left the range the model computes in: some rational the model
\* does not determine.
Approx == <<0, 0>>

IsApprox(v) == v[2] = 0

\* The model computes +, -, *, /, % and ^ exactly on operands whose numerator
\* and denominator are at most ArithCap in magnitude; beyond it the result is
\* Approx (Python's integers are unbounded, TLC's are 32-bit).
ArithCap == 30000

Small(v) == ~IsApprox(v) /\ Abs(v[1]) <= ArithCap /\ v[2] <= ArithCap

Neg(a) == IF IsApprox(a) THEN Approx ELSE <<-a[1], a[2]>>

Add(a, b) == Fraction(a[1] * b[2] + b[1] * a[2], a[2] * b[2])

Sub(a, b) == Fraction(a[1] * b[2] - b[1] * a[2], a[2] * b[2])

Mul(a, b) == Fraction(a[1] * b[1], a[2] * b[2])

\* a / b for b # 0
Div(a, b) == Fraction(a[1] * b[2], a[2] * b[1])

\* The quotient truncated toward zero
TruncDiv(a, b) ==
    LET q == Div(a, b)
    IN  <<IF q[1] >= 0 THEN q[1] \div q[2] ELSE -((-q[1]) \div q[2]), 1>>

\* a // b for b # 0: the floor of the quotient
FloorDiv(a, b) ==
    LET q == Div(a, b)
    IN  <<q[1] \div q[2], 1>>

\* a ** e for an integer e >= 0, by repeated multiplication from acc
RECURSIVE PowAcc(_, _, _)
PowAcc(a, e, acc) ==
    IF e = 0 THEN acc
    ELSE IF ~Small(acc) THEN Approx
    ELSE PowAcc(a, e - 1, Mul(acc, a))

\* a ** e for an integer e >= 0 (Fraction.__pow__); the powers of 0, 1 and
\* -1 need no multiplication
Pow(a, e) ==
    IF e = 0 \/ a = One THEN One
    ELSE IF a = Zero THEN Zero
    ELSE IF a = <<-1, 1>> THEN (IF e % 2 = 0 THEN One ELSE a)
    ELSE PowAcc(a, e, One)

\* math.factorial(n) for n >= 0, as a Fraction: acc * n * (n-1) * ... * 1
RECURSIVE FactAcc(_, _)
FactAcc(n, acc) ==
    IF n <= 1 THEN acc
    ELSE IF ~Small(acc) \/ n > ArithCap THEN Approx
    ELSE FactAcc(n - 1, <<acc[1] * n, 1>>)

factorial(n) == FactAcc(n, One)

\* int(x) of a Fraction: truncation toward zero
Trunc(v) == IF v[1] >= 0 THEN v[1] \div v[2] ELSE -((-v[1]) \div v[2])

\* ------------------------------------------------------------ number parser
\* A parser returns [err, val, idx]: err is "none" or the kind of exception
\* raised; val and idx are the returned pair.

Raise(kind) == [err |-> kind, val |-> Zero, idx |-> 0]

Return(v, i) == [err |-> "none", val |-> v, idx |-> i]

\* The while loop of parse_simple_number_words from word i on:
\* <<total, current, consumed>> when it leaves the loop.
RECURSIVE ParseSimpleLoop(_, _, _, _, _)
ParseSimpleLoop(tokens, i, total, current, consumed) ==
    IF i >= Len(tokens) THEN <<total, current, consumed>>
    ELSE LET w == tokens[i + 1]
         IN  IF w \in DOMAIN SIMPLE_NUM
             THEN ParseSimpleLoop(tokens, i + 1, total,
                                  current + SIMPLE_NUM[w], consumed + 1)
             ELSE IF w \in DOMAIN TENS
             THEN ParseSimpleLoop(tokens, i + 1, total,
                                  current + TENS[w], consumed + 1)
             ELSE IF w \in DOMAIN HUNDREDS
             THEN ParseSimpleLoop(tokens, i + 1, total,
                                  current + HUNDREDS[w], consumed + 1)
             ELSE IF w \in DOMAIN SCALES
             THEN ParseSimpleLoop(tokens, i + 1,
                      total + (IF current = 0 THEN 1 ELSE current) * SCALES[w],
                      0, consumed + 1)
             ELSE <<total, current, consumed>>

\* parse_simple_number_words(tokens, start_index): val is the integer.  The
\* error message reads tokens[start_index], which is past the end when the
\* run is empty because the list ended.
\* SimpleResult without the pending hundreds, tens and units
SimpleResultTotalOnly(tokens, start_index, total, current, consumed) ==
    IF consumed = 0 THEN Raise("ParseError")
    ELSE Return(total, start_index + consumed - 1)

\* The end of parse_simple_number_words (493-496)
SimpleResult(tokens, start_index, total, current, consumed) ==
    IF consumed = 0
    THEN IF start_index >= Len(tokens) THEN Raise("IndexError")
         ELSE Raise("ParseError")
    ELSE Return(total + current, start_index + consumed - 1)

LoopResult(tokens, start_index, r) ==
    SimpleResult(tokens, start_index, r[1], r[2], r[3])

parse_simple_number_words(tokens, start_index) ==
    LoopResult(tokens, start_index,
               ParseSimpleLoop(tokens, start_index, 0, 0, 0))

\* The numeral a denominator word is built from: base[:-len(ending)] for the
\* first ending of ENDINGS the word ends with, when that is in SIMPLE_NUM;
\* "" when there is none.
StripEnding(base) ==
    LET hits == {c \in DOMAIN SIMPLE_NUM :
                    \E e \in 1..Len(ENDINGS) : base = c \o ENDINGS[e]}
    IN  IF hits = {} THEN "" ELSE CHOOSE c \in hits : TRUE

\* Fraction(num, denom) as the parser calls it: denom may be 0
FractionOrError(num, denom, idx) ==
    IF denom = 0 THEN Raise("ZeroDivisionError")
    ELSE Return(Fraction(num, denom), idx)

\* The denominator word after the numerator num at index next_idx (512-541)
Denominator(num, denom_word, base, next_idx) ==
    IF denom_word \in DOMAIN DECIMAL_DENOMINATORS
    THEN FractionOrError(num, DECIMAL_DENOMINATORS[denom_word], next_idx)
    ELSE IF denom_word \in DOMAIN ORDINAL_DENOMINATORS
    THEN FractionOrError(num, ORDINAL_DENOMINATORS[denom_word], next_idx)
    ELSE IF denom_word \in DOMAIN SIMPLE_NUM
    THEN FractionOrError(num, SIMPLE_NUM[denom_word], next_idx)
    ELSE IF base # ""
    THEN FractionOrError(num, SIMPLE_NUM[base], next_idx)
    ELSE Raise("ParseError")

\* parse_fractional_descriptor after its numerator n was parsed (506-541)
DescriptorAfter(tokens, n) ==
    IF n.err # "none" THEN n
    ELSE IF n.idx + 1 >= Len(tokens) THEN Raise("ParseError")
    ELSE Denominator(n.val, tokens[n.idx + 2],
                     StripEnding(tokens[n.idx + 2]), n.idx + 1)

parse_fractional_descriptor(tokens, start_index) ==
    DescriptorAfter(tokens, parse_simple_number_words(tokens, start_index))

\* The whole part dropped
MixedValueFractionOnly(whole, frac) == frac

\* The whole part and the fraction after the conjunction added (556-560)
MixedValue(whole, frac) ==
    IF frac.err # "none" THEN frac
    ELSE Return(Add(<<whole, 1>>, frac.val), frac.idx)

\* parse_mixed_or_decimal_number after its whole part n was parsed (550-562)
MixedAfter(tokens, n) ==
    IF n.err # "none" THEN n
    ELSE IF n.idx + 1 < Len(tokens) /\ tokens[n.idx + 2] = "i"
    THEN MixedValue(n.val, parse_fractional_descriptor(tokens, n.idx + 2))
    ELSE Return(<<n.val, 1>>, n.idx)

parse_mixed_or_decimal_number(tokens, start_index) ==
    MixedAfter(tokens, parse_simple_number_words(tokens, start_index))

\* ----------------------------------------------------------------- renderer
\* A rendered text is the list of its words.

ONES ==
    <<"odin", "dva", "tri", "chetyre", "pyat", "shest", "sem", "vosem",
      "devyat", "desyat", "odinnadtsat", "dvenadtsat", "trinadtsat",
      "chetyrnadtsat", "pyatnadtsat", "shestnadtsat", "semnadtsat",
      "vosemnadtsat", "devyatnadtsat">>

\* TENS_WORDS[t] is the word for 10 * t, t in 2..9
TENS_WORDS ==
    <<"", "dvadtsat", "tridtsat", "sorok", "pyatdesyat", "shestdesyat",
      "semdesyat", "vosemdesyat", "devyanosto">>

\* HUND_WORDS[h] is the word for 100 * h, h in 1..9
HUND_WORDS ==
    <<"sto", "dvesti", "trista", "chetyresta", "pyatsot", "shestsot",
      "semsot", "vosemsot", "devyatsot">>

_plural_thousand(n) ==
    IF 11 <= (n % 100) /\ (n % 100) <= 14 THEN "tysyach"
    ELSE IF n % 10 = 1 THEN "tysyacha"
    ELSE IF 2 <= n % 10 /\ n % 10 <= 4 THEN "tysyachi"
    ELSE "tysyach"

_hundreds_to_words(n) ==
    LET n1 == n % 100
        n2 == IF n1 >= 20 THEN n1 % 10 ELSE n1
    IN  (IF n >= 100 THEN <<HUND_WORDS[n \div 100]>> ELSE <<>>)
        \o (IF n1 >= 20 THEN <<TENS_WORDS[n1 \div 10]>> ELSE <<>>)
        \o (IF n2 > 0 THEN <<ONES[n2]>> ELSE <<>>)

\* The word int_to_words puts after the count of millions
MillionWord(millions) ==
    IF millions % 10 # 1 \/ millions % 100 = 11 THEN "millionov"
    ELSE "million"

RECURSIVE int_to_words(_)
int_to_words(n) ==
    IF n = 0 THEN <<"nol">>
    ELSE IF n < 0 THEN <<"minus">> \o int_to_words(-n)
    ELSE LET millions == n \div 1000000
             n1 == n % 1000000
             thousands == n1 \div 1000
             n2 == n1 % 1000
         IN  (IF n >= 1000000
              THEN int_to_words(millions) \o <<MillionWord(millions)>>
              ELSE <<>>)
             \o (IF n1 >= 1000
                 THEN _hundreds_to_words(thousands)
                      \o <<_plural_thousand(thousands)>>
                 ELSE <<>>)
             \o (IF n2 > 0 THEN _hundreds_to_words(n2) ELSE <<>>)

RECURSIVE StripFactor(_, _)
StripFactor(d, p) == IF d % p = 0 THEN StripFactor(d \div p, p) ELSE d

\* is_terminating_decimal answering yes for every fraction
IsTerminatingAlways(fr) == TRUE

is_terminating_decimal(fr) == StripFactor(StripFactor(fr[2], 2), 5) = 1

\* int(digits) of a digit list
RECURSIVE DigitsToInt(_)
DigitsToInt(digits) ==
    IF digits = <<>> THEN 0
    ELSE 10 * DigitsToInt(SubSeq(digits, 1, Len(digits) - 1))
         + digits[Len(digits)]

digits_to_words(digits) ==
    IF digits = <<>> THEN <<"nol">> ELSE int_to_words(DigitsToInt(digits))

max_nonrepeat == 10

max_period == 6

\* PositionOf giving the position after the one recorded
PositionOfShifted(seen, remainder) ==
    IF \E p \in 1..Len(seen) : seen[p] = remainder
    THEN CHOOSE p \in 1..Len(seen) : seen[p] = remainder
    ELSE -1

\* The position at which remainder was seen, -1 when it was not:
\* seen[p + 1] is the remainder recorded at position p.
PositionOf(seen, remainder) ==
    IF \E p \in 1..Len(seen) : seen[p] = remainder
    THEN (CHOOSE p \in 1..Len(seen) : seen[p] = remainder) - 1
    ELSE -1

\* The long division loop: [decimals, repeating_start], repeating_start -1
\* for None.
RECURSIVE DivisionLoop(_, _, _, _)
DivisionLoop(den, remainder, seen, decimals) ==
    IF ~(remainder # 0 /\ Len(decimals) < max_nonrepeat + max_period + 5)
    THEN [decimals |-> decimals, repeating_start |-> -1]
    ELSE IF PositionOf(seen, remainder) >= 0
    THEN [decimals |-> decimals,
          repeating_start |-> PositionOf(seen, remainder)]
    ELSE DivisionLoop(den, (remainder * 10) % den, Append(seen, remainder),
                      Append(decimals, (remainder * 10) \div den))

\* fraction_to_decimal_with_period(fr): the two returned strings as
\* [sign, integer_part, dot, nonrep, rep]: the first string is sign,
\* integer_part and, when dot, "." and the digits nonrep; rep is the second
\* string's digits, <<>> for None.
fraction_to_decimal_with_period(fr) ==
    LET a == <<Abs(fr[1]), fr[2]>>
        sign == IF fr[1] < 0 THEN "-" ELSE ""
        integer_part == a[1] \div a[2]
        remainder == a[1] % a[2]
        d == DivisionLoop(a[2], remainder, <<>>, <<>>)
        nonrep == SubSeq(d.decimals, 1, d.repeating_start)
    IN  IF remainder = 0
        THEN [sign |-> sign, integer_part |-> integer_part, dot |-> FALSE,
              nonrep |-> <<>>, rep |-> <<>>]
        ELSE IF d.repeating_start < 0
        THEN [sign |-> sign, integer_part |-> integer_part, dot |-> TRUE,
              nonrep |-> d.decimals, rep |-> <<>>]
        ELSE [sign |-> sign, integer_part |-> integer_part,
              dot |-> nonrep # <<>>, nonrep |-> nonrep,
              rep |-> SubSeq(d.decimals, d.repeating_start + 1,
                             Len(d.decimals))]

ordinal_name_for_denominator(den) ==
    IF den = 2 THEN <<"vtoryh">>
    ELSE IF den = 3 THEN <<"tretih">>
    ELSE IF den = 4 THEN <<"chetvertyh">>
    ELSE IF den = 5 THEN <<"pyatyh">>
    ELSE IF den = 7 THEN <<"sedmyh">>
    ELSE IF den = 9 THEN <<"devyatyh">>
    ELSE LET w == int_to_words(den)
         IN  SubSeq(w, 1, Len(w) - 1) \o <<w[Len(w)] \o "-yh">>

\* fraction_to_words with the quotient of numerator by denominator, cut to
\* a whole number of hundredths, in the place of the numerator
FractionToWordsTruncated(fr) ==
    int_to_words((100 * fr[1]) \div fr[2]) \o <<"sotyh">>

fraction_to_words(fr) ==
    int_to_words(fr[1]) \o ordinal_name_for_denominator(fr[2])

\* PeriodTrimmed keeping five digits
PeriodTrimmedToFive(period) ==
    SubSeq(period, 1, IF Len(period) < 5 THEN Len(period) ELSE 5)

\* period[:4] (266)
PeriodTrimmed(period) ==
    SubSeq(period, 1, IF Len(period) < 4 THEN Len(period) ELSE 4)

\* DenomWord answering with the hundredths word for every denominator
DenomWordHundredths(den) == "sotyh"

\* The word for a fractional part with denominator 100, 1000 or 10 ** 6
DenomWord(den) ==
    IF den = 100 THEN "sotyh"
    ELSE IF den = 1000 THEN "tysyachnyh"
    ELSE "millionnyh"

fraction_to_mixed_and_words(fr0) ==
    LET sign_prefix == IF fr0[1] < 0 THEN <<"minus">> ELSE <<>>
        fr == <<Abs(fr0[1]), fr0[2]>>
        whole == fr[1] \div fr[2]
        part == Fraction(fr[1] % fr[2], fr[2])
        whole_words == IF whole = 0 THEN <<"nol">> ELSE int_to_words(whole)
        dec == fraction_to_decimal_with_period(fr)
        nonrep == IF dec.dot THEN dec.nonrep ELSE <<>>
        nonrep_words == IF nonrep # <<>>
                        THEN int_to_words(DigitsToInt(nonrep))
                        ELSE <<"nol">>
        period_trimmed == PeriodTrimmed(dec.rep)
    IN  IF part = Zero
        THEN sign_prefix \o whole_words
        ELSE IF part[2] \in {100, 1000, 1000000}
        THEN sign_prefix \o whole_words \o <<"i">>
             \o int_to_words(part[1]) \o <<DenomWord(part[2])>>
        ELSE IF ~is_terminating_decimal(fr) /\ dec.rep # <<>>
        THEN sign_prefix \o whole_words \o <<"i">> \o nonrep_words
             \o <<"i">> \o digits_to_words(period_trimmed)
             \o <<"v", "periode">>
        ELSE IF whole = 0
        THEN sign_prefix \o fraction_to_words(part)
        ELSE sign_prefix \o int_to_words(whole) \o <<"i">>
             \o fraction_to_words(part)

\* ---------------------------------------------------------------- tokenizer
\* A token is [type, val]; val is a word, a symbol or, for NUM, a Fraction.

Tok(type, val) == [type |-> type, val |-> val]

\* " ".join(parts)
RECURSIVE JoinWords(_)
JoinWords(parts) ==
    IF Len(parts) = 1 THEN parts[1]
    ELSE parts[1] \o " " \o JoinWords(Tail(parts))

\* MatchAt with the bound test off by one: no phrase ends the input
MatchAtNotLast(words, i, phrase_parts) ==
    /\ i + Len(phrase_parts) < Len(words)
    /\ SubSeq(words, i + 1, i + Len(phrase_parts)) = phrase_parts

\* words[i : i + lp] == phrase_parts, with the bound test before it
MatchAt(words, i, phrase_parts) ==
    /\ i + Len(phrase_parts) - 1 < Len(words)
    /\ SubSeq(words, i + 1, i + Len(phrase_parts)) = phrase_parts

Min(S) == CHOOSE x \in S : \A y \in S : x <= y

\* One iteration of the tokenizer's while loop at word i: the raw token
\* [typ, val, head, n]; head is the first word of a phrase and n the number
\* of words consumed.
TokenizeAt(words, i) ==
    LET n == Len(words)
        hits == {p \in 1..Len(PHRASE_TOKENS) :
                    MatchAt(words, i, PHRASE_TOKENS[p])}
        phrase == PHRASE_TOKENS[Min(hits)]
        w == words[i + 1]
        pair == i + 1 < n
        Two(second) == [typ |-> "PHRASE", val |-> w \o " " \o second,
                        head |-> w, n |-> 2]
    IN  IF hits # {}
        THEN [typ |-> "PHRASE", val |-> JoinWords(phrase),
              head |-> phrase[1], n |-> Len(phrase)]
        ELSE IF pair /\ w \in FUNCTIONS /\ words[i + 2] = "ot"
        THEN Two("ot")
        ELSE IF pair /\ w = "skobka" /\ words[i + 2] = "otkryvaetsya"
        THEN Two("otkryvaetsya")
        ELSE IF pair /\ w = "skobka" /\ words[i + 2] = "zakryvaetsya"
        THEN Two("zakryvaetsya")
        ELSE IF pair /\ w \in COMBINATORICS /\ words[i + 2] = "iz"
        THEN Two("iz")
        ELSE [typ |-> "WORD", val |-> w, head |-> w, n |-> 1]

\* The tokens the post-processing loop appends for one raw token
FoldRaw(raw) ==
    IF raw.typ = "PHRASE"
    THEN IF raw.val \in DOMAIN OPERATORS
         THEN <<Tok("OP", OPERATORS[raw.val].symbol)>>
         ELSE IF raw.val = "skobka otkryvaetsya" THEN <<Tok("LPAREN", "(")>>
         ELSE IF raw.val = "skobka zakryvaetsya" THEN <<Tok("RPAREN", ")")>>
         ELSE IF raw.val \in {"sinus ot", "kosinus ot", "tangens ot"}
         THEN <<Tok("FUNC", raw.head)>>
         ELSE IF raw.val \in {c \o " iz" : c \in COMBINATORICS}
         THEN <<Tok("COMB", raw.head)>>
         ELSE IF raw.val \in FILLER_WORDS THEN <<>>
         ELSE <<Tok("WORD", raw.val)>>
    ELSE IF raw.val \in FILLER_WORDS THEN <<>>
    ELSE <<Tok(raw.typ, raw.val)>>

\* tokenize_expression on the words from index i on
RECURSIVE TokenizeFrom(_, _)
TokenizeFrom(words, i) ==
    IF i >= Len(words) THEN <<>>
    ELSE LET Rest(raw) == FoldRaw(raw) \o TokenizeFrom(words, i + raw.n)
         IN  CHOOSE out \in {Rest(raw) : raw \in {TokenizeAt(words, i)}} :
                 TRUE

tokenize_expression(words) == TokenizeFrom(words, 0)

\* Fraction(str(pi)).limit_denominator(10 ** 6)
frac_pi == <<3126535, 995207>>

\* calc's pass over the tokens: the WORD "pi" becomes a NUM token
PiTransform(tokens) ==
    [t \in 1..Len(tokens) |->
        IF tokens[t].type = "WORD" /\ tokens[t].val = "pi"
        THEN Tok("NUM", frac_pi)
        ELSE tokens[t]]

\* ------------------------------------------------------------ shunting yard
\* The operator stack and the output queue are lists; the top of the stack
\* is its last element.  None is Python's None.

None == <<>>

_operator_props(symbol) ==
    LET named == {k \in DOMAIN OPERATORS : OPERATORS[k].symbol = symbol}
        v == OPERATORS[CHOOSE k \in named : TRUE]
    IN  IF named # {} THEN <<v.precedence, v.assoc>>
        ELSE IF symbol = "NEG" THEN <<4, "right">>
        ELSE IF symbol = "^" THEN <<3, "right">>
        ELSE IF symbol \in {"*", "/", "%"} THEN <<2, "left">>
        ELSE <<1, "left">>

\* UnaryOrBinary without the test of prev_was_value: "-" is always binary
UnaryOrBinaryAlwaysBinary(op, prev_was_value) == op

\* A "-" with no value before it is the unary NEG (line 715)
UnaryOrBinary(op, prev_was_value) ==
    IF op = "-" /\ ~prev_was_value THEN "NEG" ELSE op

\* PopsOperator with every operator grouping left to right
PopsOperatorLeftOnly(prec, assoc, top_prec) == prec <= top_prec

\* Whether an incoming operator (prec, assoc) pops the OP on top (723-725)
PopsOperator(prec, assoc, top_prec) ==
    \/ assoc = "left" /\ prec <= top_prec
    \/ assoc = "right" /\ prec < top_prec

\* The while loop of the OP branch (719-733): <<operator_stack, output_queue>>
RECURSIVE PopForOperator(_, _, _)
PopForOperator(op, operator_stack, output_queue) ==
    LET top == operator_stack[Len(operator_stack)]
        rest == SubSeq(operator_stack, 1, Len(operator_stack) - 1)
        props == _operator_props(op)
    IN  IF operator_stack = <<>> THEN <<operator_stack, output_queue>>
        ELSE IF top.type = "OP"
                /\ PopsOperator(props[1], props[2],
                                _operator_props(top.val)[1])
        THEN PopForOperator(op, rest, Append(output_queue, top))
        ELSE IF top.type = "FUNC"
        THEN PopForOperator(op, rest, Append(output_queue, top))
        ELSE <<operator_stack, output_queue>>

\* The while loop of the RPAREN branch (796-802):
\* <<found, operator_stack, output_queue>>
RECURSIVE PopToParen(_, _)
PopToParen(operator_stack, output_queue) ==
    LET top == operator_stack[Len(operator_stack)]
        rest == SubSeq(operator_stack, 1, Len(operator_stack) - 1)
    IN  IF operator_stack = <<>> THEN <<FALSE, operator_stack, output_queue>>
        ELSE IF top.type = "LPAREN" THEN <<TRUE, rest, output_queue>>
        ELSE PopToParen(rest, Append(output_queue, top))

\* The values of the WORD tokens from index j up to the first token that is
\* not a WORD or, with stop_at_po, is the word "po"
RECURSIVE WordRun(_, _, _)
WordRun(tokens, j, stop_at_po) ==
    IF j >= Len(tokens) \/ tokens[j + 1].type # "WORD" THEN <<>>
    ELSE IF stop_at_po /\ tokens[j + 1].val = "po" THEN <<>>
    ELSE <<tokens[j + 1].val>> \o WordRun(tokens, j + 1, stop_at_po)

IsWord(tokens, j, w) ==
    j < Len(tokens) /\ tokens[j + 1].type = "WORD" /\ tokens[j + 1].val = w

\* The state of the builder's loop, and the loop stopped by an exception
Built(i, output_queue, operator_stack, prev_was_value) ==
    [err |-> "none", i |-> i, output_queue |-> output_queue,
     operator_stack |-> operator_stack, prev_was_value |-> prev_was_value]

BuildRaise(kind, i, output_queue, operator_stack, prev_was_value) ==
    [err |-> kind, i |-> i, output_queue |-> output_queue,
     operator_stack |-> operator_stack, prev_was_value |-> prev_was_value]

\* WordParsed leaving the index where it was after a number
WordParsedInPlace(tok_val, num, i, output_queue, operator_stack, prev_was_value) ==
    IF num.err = "none"
    THEN Built(i, Append(output_queue, Tok("NUM", num.val)),
               operator_stack, TRUE)
    ELSE BuildRaise(num.err, i, output_queue, operator_stack, prev_was_value)

\* The WORD branch (679-706)
WordParsed(tok_val, num, i, output_queue, operator_stack, prev_was_value) ==
    IF num.err = "none"
    THEN Built(i + num.idx + 1, Append(output_queue, Tok("NUM", num.val)),
               operator_stack, TRUE)
    ELSE IF num.err = "ParseError"
            /\ tok_val \in {"plus", "minus", "umnozhit", "razdelit"}
    THEN Built(i + 1,
               Append(output_queue, Tok("OP", OPERATORS[tok_val].symbol)),
               operator_stack, prev_was_value)
    ELSE BuildRaise(num.err, i, output_queue, operator_stack, prev_was_value)

BuildWord(tokens, i, output_queue, operator_stack, prev_was_value) ==
    WordParsed(tokens[i + 1].val,
               parse_mixed_or_decimal_number(WordRun(tokens, i, FALSE), 0),
               i, output_queue, operator_stack, prev_was_value)

\* The OP branch (712-736)
BuildOp(tokens, i, output_queue, operator_stack, prev_was_value) ==
    LET op == UnaryOrBinary(tokens[i + 1].val, prev_was_value)
        popped == PopForOperator(op, operator_stack, output_queue)
    IN  Built(i + 1, popped[2], Append(popped[1], Tok("OP", op)), FALSE)

\* The COMB branch (741-788).  The index parse_mixed_or_decimal_number
\* returns is dropped (766, 779): the words of word_seq after the number are
\* consumed with it.
CombParsed(tokens, i, output_queue, operator_stack, prev_was_value, word_seq, k, n_val, word_seq2, k_val) ==
    IF word_seq = <<>>
    THEN BuildRaise("ParseError", i, output_queue, operator_stack,
                    prev_was_value)
    ELSE IF n_val.err # "none"
    THEN BuildRaise(n_val.err, i, output_queue, operator_stack,
                    prev_was_value)
    ELSE IF ~IsWord(tokens, k, "po")
    THEN Built(k, Append(output_queue,
                      Tok("COMB", <<tokens[i + 1].val, n_val.val, None>>)),
               operator_stack, TRUE)
    ELSE IF word_seq2 = <<>>
    THEN BuildRaise("ParseError", i, output_queue, operator_stack,
                    prev_was_value)
    ELSE IF k_val.err # "none"
    THEN BuildRaise(k_val.err, i, output_queue, operator_stack,
                    prev_was_value)
    ELSE Built(k + 1 + Len(word_seq2),
               Append(output_queue,
                      Tok("COMB", <<tokens[i + 1].val, n_val.val, k_val.val>>)),
               operator_stack, TRUE)

\* The branch from the index j of the first word of n on
CombFrom(tokens, i, output_queue, operator_stack, prev_was_value, j, word_seq) ==
    CombParsed(tokens, i, output_queue, operator_stack, prev_was_value,
               word_seq, j + Len(word_seq),
               parse_mixed_or_decimal_number(word_seq, 0),
               WordRun(tokens, j + Len(word_seq) + 1, FALSE),
               parse_mixed_or_decimal_number(
                   WordRun(tokens, j + Len(word_seq) + 1, FALSE), 0))

BuildComb(tokens, i, output_queue, operator_stack, prev_was_value) ==
    LET j == IF IsWord(tokens, i + 1, "iz") THEN i + 2 ELSE i + 1
    IN  CombFrom(tokens, i, output_queue, operator_stack, prev_was_value, j,
                 WordRun(tokens, j, TRUE))

\* BuildRParen moving the opening parenthesis to the output as well
BuildRParenKeepsMarker(tokens, i, output_queue, operator_stack, prev_was_value) ==
    LET popped == PopToParen(operator_stack, output_queue)
    IN  IF popped[1]
        THEN Built(i + 1, Append(popped[3], Tok("LPAREN", "(")), popped[2],
                   TRUE)
        ELSE BuildRaise("ParseError", i, popped[3], popped[2],
                        prev_was_value)

\* The RPAREN branch (793-808)
BuildRParen(tokens, i, output_queue, operator_stack, prev_was_value) ==
    LET popped == PopToParen(operator_stack, output_queue)
    IN  IF popped[1] THEN Built(i + 1, popped[3], popped[2], TRUE)
        ELSE BuildRaise("ParseError", i, popped[3], popped[2],
                        prev_was_value)

\* One iteration of the builder's while loop (677-810) at token i
BuildToken(tokens, i, output_queue, operator_stack, prev_was_value) ==
    LET type == tokens[i + 1].type
    IN  IF type = "WORD"
        THEN BuildWord(tokens, i, output_queue, operator_stack, prev_was_value)
        ELSE IF type = "NUM"
        THEN Built(i + 1, Append(output_queue, tokens[i + 1]), operator_stack,
                   TRUE)
        ELSE IF type = "OP"
        THEN BuildOp(tokens, i, output_queue, operator_stack, prev_was_value)
        ELSE IF type = "FUNC"
        THEN Built(i + 1, output_queue, Append(operator_stack, tokens[i + 1]),
                   FALSE)
        ELSE IF type = "COMB"
        THEN BuildComb(tokens, i, output_queue, operator_stack, prev_was_value)
        ELSE IF type = "LPAREN"
        THEN Built(i + 1, output_queue, Append(operator_stack, tokens[i + 1]),
                   FALSE)
        ELSE IF type = "RPAREN"
        THEN BuildRParen(tokens, i, output_queue, operator_stack,
                         prev_was_value)
        ELSE BuildRaise("ParseError", i, output_queue, operator_stack,
                        prev_was_value)

\* IsParenMarker without the test: leftover markers are moved to the output
IsParenMarkerNever(type) == FALSE

\* Whether the final loop raises on this stack entry (814)
IsParenMarker(type) == type \in {"LPAREN", "RPAREN"}

\* The final loop (812-816): [err, output_queue]
RECURSIVE Drain(_, _)
Drain(operator_stack, output_queue) ==
    LET top == operator_stack[Len(operator_stack)]
        rest == SubSeq(operator_stack, 1, Len(operator_stack) - 1)
    IN  IF operator_stack = <<>>
        THEN [err |-> "none", output_queue |-> output_queue]
        ELSE IF IsParenMarker(top.type)
        THEN [err |-> "ParseError", output_queue |-> output_queue]
        ELSE Drain(rest, Append(output_queue, top))

\* ---------------------------------------------------------------- evaluator
\* An outcome of one step is [err, val]: the value pushed, or the kind of
\* exception raised.  A step whose operand is Approx has every outcome the
\* undetermined value allows.

Ok(v) == [err |-> "none", val |-> v]

Fail(kind) == [err |-> kind, val |-> Zero]

\* a op b for the exact operators +, -, *
Exact3(op, a, b) ==
    IF ~Small(a) \/ ~Small(b) THEN Approx
    ELSE IF op = "+" THEN Add(a, b)
    ELSE IF op = "-" THEN Sub(a, b)
    ELSE Mul(a, b)

\* IsZeroDivisor without the test: Fraction's own division is reached
IsZeroDivisorNever(b) == FALSE

\* Whether "/" and "%" raise MathError on the right operand b (874, 878)
IsZeroDivisor(b) == b = Zero

\* a / b (873-876)
DivOutcomes(a, b) ==
    IF IsApprox(b) THEN {Fail("MathError"), Ok(Approx)}
    ELSE IF IsZeroDivisor(b) THEN {Fail("MathError")}
    ELSE IF b[1] = 0 THEN {Fail("ZeroDivisionError")}
    ELSE IF ~Small(a) \/ ~Small(b) THEN {Ok(Approx)}
    ELSE {Ok(Div(a, b))}

\* a % b = a - b * floor(a / b) (877-882)
ModOutcomes(a, b) ==
    IF IsApprox(b) THEN {Fail("MathError"), Ok(Approx)}
    ELSE IF IsZeroDivisor(b) THEN {Fail("MathError")}
    ELSE IF b[1] = 0 THEN {Fail("ZeroDivisionError")}
    ELSE IF ~Small(a) \/ ~Small(b) \/ a[2] * b[2] > ArithCap
    THEN {Ok(Approx)}
    ELSE {Ok(Sub(a, Mul(b, FloorDiv(a, b))))}

\* float(a) ** float(b) for a non-integer b, then
\* Fraction(val).limit_denominator(10 ** 6) (885-888): a negative base gives
\* a complex number, which Fraction rejects with TypeError; 0.0 to a negative
\* power raises ZeroDivisionError.
FloatPowOutcomes(a, b) ==
    IF IsApprox(a) \/ IsApprox(b)
    THEN {Ok(Approx), Fail("TypeError"), Fail("ZeroDivisionError")}
    ELSE IF a[1] > 0 THEN {Ok(Approx)}
    ELSE IF a[1] < 0 THEN {Fail("TypeError")}
    ELSE IF b[1] > 0 THEN {Ok(Zero)}
    ELSE {Fail("ZeroDivisionError")}

\* PowOutcomes taking the float path for every exponent
PowOutcomesAlwaysFloat(a, b) == FloatPowOutcomes(a, b)

\* a ^ b (883-894)
PowOutcomes(a, b) ==
    IF IsApprox(b) \/ b[2] # 1 THEN FloatPowOutcomes(a, b)
    ELSE IF b[1] >= 0
    THEN {Ok(IF IsApprox(a) THEN Approx ELSE Pow(a, b[1]))}
    ELSE IF IsApprox(a) THEN {Ok(Approx), Fail("ZeroDivisionError")}
    ELSE IF a[1] = 0 THEN {Fail("ZeroDivisionError")}
    ELSE LET p == Pow(a, -b[1])
         IN  {Ok(IF Small(p) THEN Div(One, p) ELSE Approx)}

\* The binary operators (867-896)
BinaryOutcomes(op, a, b) ==
    IF op \in {"+", "-", "*"} THEN {Ok(Exact3(op, a, b))}
    ELSE IF op = "/" THEN DivOutcomes(a, b)
    ELSE IF op = "%" THEN ModOutcomes(a, b)
    ELSE IF op = "^" THEN PowOutcomes(a, b)
    ELSE {Fail("ParseError")}

\* sin, cos, tan of float(arg), then limit_denominator(10 ** 6) (903-913)
FuncOutcomes(name, arg) ==
    IF name \notin FUNCTIONS THEN {Fail("ParseError")}
    ELSE IF arg = Zero
    THEN {Ok(IF name = "kosinus" THEN One ELSE Zero)}
    ELSE {Ok(Approx)}

\* n! / (n - k)! and n! / (k! (n - k)!) as the code computes them, with //
Arrangements(n, k) ==
    LET a == factorial(n)
        b == factorial(n - k)
    IN  IF ~Small(a) \/ ~Small(b) THEN Approx ELSE <<a[1] \div b[1], 1>>

\* Combinations without the factor (n - k)! of the divisor
CombinationsNoRest(n, k) ==
    LET a == factorial(n)
        b == factorial(k)
    IN  IF ~Small(a) \/ ~Small(b) THEN Approx ELSE <<a[1] \div b[1], 1>>

Combinations(n, k) ==
    LET a == factorial(n)
        b == factorial(k)
        c == factorial(n - k)
    IN  IF ~Small(a) \/ ~Small(b) \/ ~Small(c) THEN Approx
        ELSE <<a[1] \div (b[1] * c[1]), 1>>

\* Whether a COMB element with k is answered with 0 (928, 935, 942)
OutOfDomain(n, k) == k > n \/ n < 0 \/ k < 0

\* NegativeN answering 0 as the branches with k do
NegativeNPushesZero(n) == Ok(Zero)

\* What a COMB element without k does for a negative n (920-921)
NegativeN(n) == Fail("MathError")

\* CombOutcome asking for k unless the kind is the permutations
CombOutcomeNeedsK(elem_val) ==
    LET kind == elem_val[1]
        n == Trunc(elem_val[2])
        k == Trunc(elem_val[3])
    IN  IF elem_val[3] = None
        THEN IF kind # "perestanovok" THEN Fail("ParseError")
             ELSE IF n < 0 THEN NegativeN(n) ELSE Ok(factorial(n))
        ELSE IF kind \in {"perestanovok", "razmeshcheniy"}
        THEN IF OutOfDomain(n, k) THEN Ok(Zero) ELSE Ok(Arrangements(n, k))
        ELSE IF kind = "sochetaniy"
        THEN IF OutOfDomain(n, k) THEN Ok(Zero) ELSE Ok(Combinations(n, k))
        ELSE Fail("ParseError")

\* The COMB branch (914-948)
CombOutcome(elem_val) ==
    LET kind == elem_val[1]
        n == Trunc(elem_val[2])
        k == Trunc(elem_val[3])
    IN  IF elem_val[3] = None
        THEN IF n < 0 THEN NegativeN(n) ELSE Ok(factorial(n))
        ELSE IF kind \in {"perestanovok", "razmeshcheniy"}
        THEN IF OutOfDomain(n, k) THEN Ok(Zero) ELSE Ok(Arrangements(n, k))
        ELSE IF kind = "sochetaniy"
        THEN IF OutOfDomain(n, k) THEN Ok(Zero) ELSE Ok(Combinations(n, k))
        ELSE Fail("ParseError")

\* The operands an element pops: fewer on the stack is "insufficient
\* operands" (858, 863, 899)
Arity(elem) ==
    IF elem.type = "OP" THEN (IF elem.val = "NEG" THEN 1 ELSE 2)
    ELSE IF elem.type = "FUNC" THEN 1
    ELSE 0

\* One iteration of evaluate_rpn's for loop (852-950): the set of
\* [err, stack] it can end with
EvalElement(elem, stack) ==
    LET n == Len(stack)
        Push(below, outcomes) ==
            {[err |-> o.err,
              stack |-> IF o.err = "none" THEN Append(below, o.val)
                        ELSE below] : o \in outcomes}
    IN  IF elem.type \notin {"NUM", "OP", "FUNC", "COMB"}
        THEN {[err |-> "ParseError", stack |-> stack]}
        ELSE IF n < Arity(elem)
        THEN {[err |-> "ParseError", stack |-> stack]}
        ELSE IF elem.type = "NUM" THEN Push(stack, {Ok(elem.val)})
        ELSE IF elem.type = "COMB" THEN Push(stack, {CombOutcome(elem.val)})
        ELSE IF elem.type = "FUNC"
        THEN Push(SubSeq(stack, 1, n - 1), FuncOutcomes(elem.val, stack[n]))
        ELSE IF elem.val = "NEG"
        THEN Push(SubSeq(stack, 1, n - 1), {Ok(Neg(stack[n]))})
        ELSE Push(SubSeq(stack, 1, n - 2),
                  BinaryOutcomes(elem.val, stack[n - 1], stack[n]))

\* ------------------------------------------------------------------ main.py
\* src/First-course/First-semester/Calc/main.py is an earlier calc: its
\* lexicon (without the filler words and the ordinal denominators), its
\* parse_simple_number_words, its long division and its int_to_words are
\* those above; the definitions below are the functions that differ.

main_ENDINGS == <<"yh", "aya", "yh", "oe", "yh", "ih", "yh", "yh">>

\* The ordinal words of the lexicon above are not a numeral and an ending
\* in Russian ("pyatyh" is not "pyat" and "yh": the numeral ends in a soft
\* sign)
main_StripEnding(base) ==
    LET hits == {c \in DOMAIN SIMPLE_NUM :
                    \E e \in 1..Len(main_ENDINGS) : base = c \o main_ENDINGS[e]}
    IN  IF hits = {} \/ base \in DOMAIN ORDINAL_DENOMINATORS THEN ""
        ELSE CHOOSE c \in hits : TRUE

\* The denominator word after the numerator num at index next_idx
main_Denominator(num, denom_word, base, next_idx) ==
    IF denom_word \in DOMAIN DECIMAL_DENOMINATORS
    THEN FractionOrError(num, DECIMAL_DENOMINATORS[denom_word], next_idx)
    ELSE IF denom_word \in DOMAIN SIMPLE_NUM
    THEN FractionOrError(num, SIMPLE_NUM[denom_word], next_idx)
    ELSE IF base # ""
    THEN FractionOrError(num, SIMPLE_NUM[base], next_idx)
    ELSE Raise("ParseError")

main_DescriptorAfter(tokens, n) ==
    IF n.err # "none" THEN n
    ELSE IF n.idx + 1 >= Len(tokens) THEN Raise("ParseError")
    ELSE main_Denominator(n.val, tokens[n.idx + 2],
                          main_StripEnding(tokens[n.idx + 2]), n.idx + 1)

main_parse_fractional_descriptor(tokens, start_index) ==
    main_DescriptorAfter(tokens, parse_simple_number_words(tokens, start_index))

main_MixedAfter(tokens, n) ==
    IF n.err # "none" THEN n
    ELSE IF n.idx + 1 < Len(tokens) /\ tokens[n.idx + 2] = "i"
    THEN MixedValue(n.val,
                    main_parse_fractional_descriptor(tokens, n.idx + 2))
    ELSE Return(<<n.val, 1>>, n.idx)

main_parse_mixed_or_decimal_number(tokens, start_index) ==
    main_MixedAfter(tokens, parse_simple_number_words(tokens, start_index))

\* One iteration of the tokenizer's while loop at word i
main_TokenizeAt(words, i) ==
    LET n == Len(words)
        hits == {p \in 1..Len(PHRASE_TOKENS) :
                    MatchAt(words, i, PHRASE_TOKENS[p])}
        phrase == PHRASE_TOKENS[Min(hits)]
        w == words[i + 1]
        pair == i + 1 < n
        triple == i + 2 < n
        Two(second) == [typ |-> "PHRASE", val |-> w \o " " \o second,
                        head |-> w, n |-> 2]
    IN  IF hits # {}
        THEN [typ |-> "PHRASE", val |-> JoinWords(phrase),
              head |-> phrase[1], n |-> Len(phrase)]
        ELSE IF pair /\ w \in FUNCTIONS /\ words[i + 2] = "ot"
        THEN Two("ot")
        ELSE IF triple /\ w = "skobka" /\ words[i + 2] = "otkryvaetsya"
        THEN Two("otkryvaetsya")
        ELSE IF triple /\ w = "skobka" /\ words[i + 2] = "zakryvaetsya"
        THEN Two("zakryvaetsya")
        ELSE IF pair /\ w \in COMBINATORICS /\ words[i + 2] = "iz"
        THEN Two("iz")
        ELSE [typ |-> "WORD", val |-> w, head |-> w, n |-> 1]

\* The tokens the post-processing loop appends for one raw token: every
\* word is kept
main_FoldRaw(raw) ==
    IF raw.typ = "PHRASE"
    THEN IF raw.val \in DOMAIN OPERATORS
         THEN <<Tok("OP", OPERATORS[raw.val].symbol)>>
         ELSE IF raw.val = "skobka otkryvaetsya" THEN <<Tok("LPAREN", "(")>>
         ELSE IF raw.val = "skobka zakryvaetsya" THEN <<Tok("RPAREN", ")")>>
         ELSE IF raw.val \in {"sinus ot", "kosinus ot", "tangens ot"}
         THEN <<Tok("FUNC", raw.head)>>
         ELSE IF raw.val \in {c \o " iz" : c \in COMBINATORICS}
         THEN <<Tok("COMB", raw.head)>>
         ELSE <<Tok("WORD", raw.val)>>
    ELSE <<Tok(raw.typ, raw.val)>>

RECURSIVE main_TokenizeFrom(_, _)
main_TokenizeFrom(words, i) ==
    IF i >= Len(words) THEN <<>>
    ELSE LET raw == main_TokenizeAt(words, i)
         IN  main_FoldRaw(raw) \o main_TokenizeFrom(words, i + raw.n)

main_tokenize_expression(words) == main_TokenizeFrom(words, 0)

main__operator_props(symbol) ==
    LET named == {k \in DOMAIN OPERATORS : OPERATORS[k].symbol = symbol}
        v == OPERATORS[CHOOSE k \in named : TRUE]
    IN  IF named # {} THEN <<v.precedence, v.assoc>>
        ELSE IF symbol = "^" THEN <<3, "right">>
        ELSE IF symbol \in {"*", "/", "%"} THEN <<2, "left">>
        ELSE <<1, "left">>

\* The while loop of the OP branch: <<operator_stack, output_queue>>
RECURSIVE main_PopForOperator(_, _, _)
main_PopForOperator(op, operator_stack, output_queue) ==
    LET top == operator_stack[Len(operator_stack)]
        rest == SubSeq(operator_stack, 1, Len(operator_stack) - 1)
        props == main__operator_props(op)
    IN  IF operator_stack = <<>> THEN <<operator_stack, output_queue>>
        ELSE IF top.type = "OP"
                /\ PopsOperator(props[1], props[2],
                                main__operator_props(top.val)[1])
        THEN main_PopForOperator(op, rest, Append(output_queue, top))
        ELSE IF top.type = "FUNC"
        THEN main_PopForOperator(op, rest, Append(output_queue, top))
        ELSE <<operator_stack, output_queue>>

\* The WORD branch
main_BuildWord(tokens, i, output_queue, operator_stack) ==
    WordParsed(tokens[i + 1].val,
               main_parse_mixed_or_decimal_number(WordRun(tokens, i, FALSE), 0),
               i, output_queue, operator_stack, FALSE)

\* The OP branch: the operator is pushed as it is, "-" too
main_BuildOp(tokens, i, output_queue, operator_stack) ==
    LET op == tokens[i + 1].val
        popped == main_PopForOperator(op, operator_stack, output_queue)
    IN  Built(i + 1, popped[2], Append(popped[1], Tok("OP", op)), FALSE)

\* The COMB branch from the index j of the first word of n on
main_CombFrom(tokens, i, output_queue, operator_stack, j, word_seq) ==
    CombParsed(tokens, i, output_queue, operator_stack, FALSE,
               word_seq, j + Len(word_seq),
               main_parse_mixed_or_decimal_number(word_seq, 0),
               WordRun(tokens, j + Len(word_seq) + 1, FALSE),
               main_parse_mixed_or_decimal_number(
                   WordRun(tokens, j + Len(word_seq) + 1, FALSE), 0))

main_BuildComb(tokens, i, output_queue, operator_stack) ==
    LET j == IF IsWord(tokens, i + 1, "iz") THEN i + 2 ELSE i + 1
    IN  main_CombFrom(tokens, i, output_queue, operator_stack, j,
                      WordRun(tokens, j, TRUE))

\* One iteration of the builder's while loop at token i
main_BuildToken(tokens, i, output_queue, operator_stack) ==
    LET type == tokens[i + 1].type
    IN  IF type = "WORD"
        THEN main_BuildWord(tokens, i, output_queue, operator_stack)
        ELSE IF type = "NUM"
        THEN Built(i + 1, Append(output_queue, tokens[i + 1]), operator_stack,
                   FALSE)
        ELSE IF type = "OP"
        THEN main_BuildOp(tokens, i, output_queue, operator_stack)
        ELSE IF type = "FUNC"
        THEN Built(i + 1, output_queue, Append(operator_stack, tokens[i + 1]),
                   FALSE)
        ELSE IF type = "COMB"
        THEN main_BuildComb(tokens, i, output_queue, operator_stack)
        ELSE IF type = "LPAREN"
        THEN Built(i + 1, output_queue, Append(operator_stack, tokens[i + 1]),
                   FALSE)
        ELSE IF type = "RPAREN"
        THEN BuildRParen(tokens, i, output_queue, operator_stack, FALSE)
        ELSE BuildRaise("ParseError", i, output_queue, operator_stack, FALSE)

\* One iteration of evaluate_rpn's for loop: there is no unary minus, a NEG
\* element is an operator of two operands that is not known
main_EvalElement(elem, stack) ==
    IF elem.type = "OP" /\ elem.val = "NEG"
    THEN {[err |-> "ParseError", stack |-> stack]}
    ELSE EvalElement(elem, stack)

\* round(x) of a Fraction x >= 0: to the nearest integer, a half to the even
RoundHalfEven(x) ==
    LET f == x[1] \div x[2]
        r == x[1] % x[2]
    IN  IF 2 * r < x[2] THEN f
        ELSE IF 2 * r > x[2] THEN f + 1
        ELSE IF f % 2 = 0 THEN f
        ELSE f + 1

\* The word for a decimal part of length digits, length 2, 3 or 6
main_DenomWord(length) ==
    IF length = 2 THEN "sotyh"
    ELSE IF length = 3 THEN "tysyachnyh"
    ELSE "millionnyh"

\* The ending decimal part of digits that are not 2, 3 or 6: rounded to
\* hundredths, or dropped when it rounds to 0 thousandths
main_Rounded(sign_prefix, whole, whole_words, part) ==
    IF RoundHalfEven(<<part[1] * 1000, part[2]>>) = 0
    THEN sign_prefix \o int_to_words(whole)
    ELSE sign_prefix \o whole_words \o <<"i">>
         \o int_to_words(RoundHalfEven(<<part[1] * 100, part[2]>>))
         \o <<"sotyh">>

\* The branch of a fraction with an ending decimal expansion
main_Terminating(sign_prefix, whole, whole_words, part, dec) ==
    IF dec.rep # <<>>
    THEN sign_prefix \o whole_words \o <<"i">>
         \o (IF dec.dot THEN int_to_words(DigitsToInt(dec.nonrep))
             ELSE <<"nol">>)
         \o <<"i">> \o digits_to_words(dec.rep) \o <<"v", "periode">>
    ELSE IF ~dec.dot THEN sign_prefix \o int_to_words(dec.integer_part)
    ELSE IF Len(dec.nonrep) \in {2, 3, 6}
    THEN sign_prefix \o whole_words \o <<"i">>
         \o int_to_words(DigitsToInt(dec.nonrep))
         \o <<main_DenomWord(Len(dec.nonrep))>>
    ELSE main_Rounded(sign_prefix, whole, whole_words, part)

\* The branch of the other fractions: the periodic form, or the fraction
main_Repeating(sign_prefix, whole, whole_words, part, dec) ==
    IF dec.rep # <<>>
    THEN sign_prefix \o whole_words \o <<"i">>
         \o (IF dec.dot THEN int_to_words(DigitsToInt(dec.nonrep))
             ELSE <<"nol">>)
         \o <<"i">> \o digits_to_words(PeriodTrimmed(dec.rep))
         \o <<"v", "periode">>
    ELSE IF whole = 0 THEN sign_prefix \o fraction_to_words(part)
    ELSE sign_prefix \o int_to_words(whole) \o <<"i">>
         \o fraction_to_words(part)

main_Rendered(sign_prefix, fr, whole, whole_words, part) ==
    IF part = Zero THEN sign_prefix \o whole_words
    ELSE IF is_terminating_decimal(fr)
    THEN main_Terminating(sign_prefix, whole, whole_words, part,
                          fraction_to_decimal_with_period(fr))
    ELSE main_Repeating(sign_prefix, whole, whole_words, part,
                        fraction_to_decimal_with_period(fr))

main_fraction_to_mixed_and_words(fr) ==
    main_Rendered(IF fr[1] < 0 THEN <<"minus">> ELSE <<>>,
                  <<Abs(fr[1]), fr[2]>>,
                  Abs(fr[1]) \div fr[2],
                  IF Abs(fr[1]) \div fr[2] = 0 THEN <<"nol">>
                  ELSE int_to_words(Abs(fr[1]) \div fr[2]),
                  Fraction(Abs(fr[1]) % fr[2], fr[2]))

\* HoldsOneValue accepting every stack that is not empty
HoldsOneValueOrMore(stack) == Len(stack) >= 1

\* The test before evaluate_rpn's return (951)
HoldsOneValue(stack) == Len(stack) = 1

\* -------------------------------------------------------------------- calc
\* The state of one call of calc (959-1008): the input, the stage reached,
\* and the locals of the stage's loop.

VARIABLES
    expression,      \* the input, as its words
    pc,              \* "tokenize", "shunting_yard", "evaluate_rpn",
                     \* "render", "returned" or "raised"
    tokens,          \* the tokens handed to shunting_yard_with_numbers
    i,               \* the builder's index into tokens
    output_queue,    \* the builder's output
    operator_stack,  \* the builder's stack
    prev_was_value,  \* the builder's flag
    rpn,             \* the postfix sequence handed to evaluate_rpn
    ip,              \* the number of elements of rpn evaluated
    stack,           \* the evaluator's stack
    result_fraction, \* what evaluate_rpn returned
    result_text,     \* what calc returned, as its words
    err              \* "none", or the kind of the exception raised

vars ==
    <<expression, pc, tokens, i, output_queue, operator_stack,
      prev_was_value, rpn, ip, stack, result_fraction, result_text, err>>

\* calc called on the words of an expression
Start(words) ==
    /\ expression = words
    /\ pc = "tokenize"
    /\ tokens = <<>>
    /\ i = 0
    /\ output_queue = <<>>
    /\ operator_stack = <<>>
    /\ prev_was_value = FALSE
    /\ rpn = <<>>
    /\ ip = 0
    /\ stack = <<>>
    /\ result_fraction = Zero
    /\ result_text = <<>>
    /\ err = "none"

\* evaluate_rpn called on a postfix sequence
StartRpn(elements) ==
    /\ expression = <<>>
    /\ pc = "evaluate_rpn"
    /\ tokens = <<>>
    /\ i = 0
    /\ output_queue = <<>>
    /\ operator_stack = <<>>
    /\ prev_was_value = FALSE
    /\ rpn = elements
    /\ ip = 0
    /\ stack = <<>>
    /\ result_fraction = Zero
    /\ result_text = <<>>
    /\ err = "none"

\* calc up to the call of shunting_yard_with_numbers (969-998)
Tokenize ==
    /\ pc = "tokenize"
    /\ IF expression = <<>>
       THEN /\ pc' = "raised"
            /\ err' = "ParseError"
            /\ tokens' = tokens
       ELSE /\ pc' = "shunting_yard"
            /\ err' = err
            /\ \E t \in {tokenize_expression(expression)} :
                   tokens' = PiTransform(t)
    /\ UNCHANGED <<expression, i, output_queue, operator_stack,
                   prev_was_value, rpn, ip, stack, result_fraction,
                   result_text>>

\* One iteration of the builder's while loop (677-810)
ShuntStep ==
    /\ pc = "shunting_yard"
    /\ i < Len(tokens)
    /\ \E b \in {BuildToken(tokens, i, output_queue, operator_stack,
                           prev_was_value)} :
           /\ i' = b.i
           /\ output_queue' = b.output_queue
           /\ operator_stack' = b.operator_stack
           /\ prev_was_value' = b.prev_was_value
           /\ err' = b.err
           /\ pc' = IF b.err = "none" THEN pc ELSE "raised"
    /\ UNCHANGED <<expression, tokens, rpn, ip, stack, result_fraction,
                   result_text>>

\* The builder's final loop and return (811-817)
ShuntFinish ==
    /\ pc = "shunting_yard"
    /\ i >= Len(tokens)
    /\ LET d == Drain(operator_stack, output_queue)
       IN  /\ output_queue' = d.output_queue
           /\ err' = d.err
           /\ pc' = IF d.err = "none" THEN "evaluate_rpn" ELSE "raised"
           /\ rpn' = IF d.err = "none" THEN d.output_queue ELSE rpn
           /\ operator_stack' = IF d.err = "none" THEN <<>>
                                ELSE operator_stack
    /\ UNCHANGED <<expression, tokens, i, prev_was_value, ip, stack,
                   result_fraction, result_text>>

\* One iteration of the evaluator's for loop (852-950)
EvalStep ==
    /\ pc = "evaluate_rpn"
    /\ ip < Len(rpn)
    /\ \E o \in EvalElement(rpn[ip + 1], stack) :
           /\ stack' = o.stack
           /\ err' = o.err
           /\ pc' = IF o.err = "none" THEN pc ELSE "raised"
    /\ ip' = ip + 1
    /\ UNCHANGED <<expression, tokens, i, output_queue, operator_stack,
                   prev_was_value, rpn, result_fraction, result_text>>

\* The evaluator's return (951-955)
EvalFinish ==
    /\ pc = "evaluate_rpn"
    /\ ip >= Len(rpn)
    /\ IF ~HoldsOneValue(stack)
       THEN /\ pc' = "raised"
            /\ err' = "ParseError"
            /\ result_fraction' = result_fraction
       ELSE /\ pc' = "render"
            /\ err' = err
            /\ result_fraction' = stack[1]
    /\ UNCHANGED <<expression, tokens, i, output_queue, operator_stack,
                   prev_was_value, rpn, ip, stack, result_text>>

\* calc's last step (1007-1008); the words of an Approx are not determined
\* (nor is it whether float or int_to_words overflows on a huge one)
Render ==
    /\ pc = "render"
    /\ pc' = "returned"
    /\ result_text' = IF IsApprox(result_fraction) THEN <<"approx">>
                      ELSE fraction_to_mixed_and_words(result_fraction)
    /\ UNCHANGED <<expression, tokens, i, output_queue, operator_stack,
                   prev_was_value, rpn, ip, stack, result_fraction, err>>

Next ==
    \/ Tokenize
    \/ ShuntStep
    \/ ShuntFinish
    \/ EvalStep
    \/ EvalFinish
    \/ Render

\* evaluate_rpn and the rendering of its result (1005-1008)
NextRender ==
    \/ EvalStep
    \/ EvalFinish
    \/ Render

\* evaluate_rpn alone
NextRpn ==
    \/ EvalStep
    \/ EvalFinish

\* ------------------------------------------------------------------- inputs
\* An input is a list of items, each a word or a phrase, flattened to words.

RECURSIVE Flat(_)
Flat(items) == IF items = <<>> THEN <<>> ELSE items[1] \o Flat(Tail(items))

\* Every list of at most n items of V, as words
Inputs(V, n) == {Flat(s) : s \in UNION {[1..k -> V] : k \in 0..n}}

LP == <<"skobka", "otkryvaetsya">>

RP == <<"skobka", "zakryvaetsya">>

\* The longest input, in items, of the specifications over free word lists
MaxItems == 4

\* Numbers, minus, an operator, parentheses, a function and a combinatorics
\* call in every order
BuilderItems ==
    {<<"pyat">>, <<"odin">>, <<"minus">>, <<"umnozhit", "na">>, LP, RP,
     <<"sinus", "ot">>, <<"sochetaniy", "iz">>, <<"po">>}

InitBuilder == \E w \in Inputs(BuilderItems, MaxItems) : Start(w)

SpecBuilder == InitBuilder /\ [][Next]_vars

\* Zero, division, modulo, powers, unary minus, the conjunction and
\* denominator words
ErrorItems ==
    {<<"nol">>, <<"odin">>, <<"dva">>, <<"razdelit", "na">>,
     <<"ostatok", "ot", "deleniya">>, <<"v", "stepeni">>, <<"minus">>,
     <<"i">>, <<"vtoryh">>, <<"nolyh">>}

InitErrors == \E w \in Inputs(ErrorItems, MaxItems) : Start(w)

SpecErrors == InitErrors /\ [][Next]_vars

\* Numbers, a word outside the vocabulary, combinatorics calls and "po"
WordItems ==
    {<<"pyat">>, <<"tri">>, <<"abv">>, <<"plus">>, <<"perestanovok", "iz">>,
     <<"sochetaniy", "iz">>, <<"po">>, <<"i">>, <<"pyatyh">>}

InitWords == \E w \in Inputs(WordItems, MaxItems) : Start(w)

SpecWords == InitWords /\ [][Next]_vars

\* Infix expressions: numerals, the six binary operator phrases and
\* balanced parentheses
InfixNumbers == ("dva" :> 2) @@ ("tri" :> 3) @@ ("pyat" :> 5)

InfixOperatorPhrases ==
    {<<"plus">>, <<"minus">>, <<"umnozhit", "na">>, <<"razdelit">>,
     <<"ostatok", "ot", "deleniya">>, <<"v", "stepeni">>}

\* The longest infix expression, in items
MaxInfixItems == 7

\* The well-formed expressions of exactly n items: a primary is a numeral
\* or a parenthesized expression, an expression is primaries joined by
\* operators
RECURSIVE InfixPrimaries(_), InfixExpressions(_)
InfixPrimaries(n) ==
    IF n = 1 THEN {<<w>> : w \in DOMAIN InfixNumbers}
    ELSE IF n >= 3 THEN {LP \o e \o RP : e \in InfixExpressions(n - 2)}
    ELSE {}

InfixExpressions(n) ==
    InfixPrimaries(n)
    \cup UNION {{p \o op \o e : p \in InfixPrimaries(a),
                                op \in InfixOperatorPhrases,
                                e \in InfixExpressions(n - a - 1)} :
                a \in 1..(n - 2)}

InitInfix ==
    \E n \in 1..MaxInfixItems : \E w \in InfixExpressions(n) : Start(w)

SpecInfix == InitInfix /\ [][Next]_vars

\* Round trips: calc on the words of n, and evaluate_rpn and the renderer on
\* the number n
RoundTripDense == 20000

RoundTripUnits ==
    {0, 1, 2, 5, 10, 11, 14, 19, 20, 21, 40, 99, 100, 101, 111, 219, 500, 999}

\* Every n up to RoundTripDense, and every count of thousands with the
\* units of RoundTripUnits
RoundTripNumbers ==
    0..RoundTripDense
    \cup {t * 1000 + u : t \in 1..999, u \in RoundTripUnits}

InitRoundTrip ==
    \E n \in RoundTripNumbers :
        \/ Start(int_to_words(n))
        \/ StartRpn(<<Tok("NUM", <<n, 1>>)>>)

SpecRoundTrip == InitRoundTrip /\ [][Next]_vars

\* Combinatorics calls on the words of n and k
MaxN == 6

CombInput(kind, n) == <<kind, "iz">> \o int_to_words(n)

CombInputK(kind, n, k) == CombInput(kind, n) \o <<"po">> \o int_to_words(k)

InitComb ==
    \E kind \in COMBINATORICS, n \in 0..MaxN :
        \/ Start(CombInput(kind, n))
        \/ \E k \in 0..MaxN : Start(CombInputK(kind, n, k))

SpecComb == InitComb /\ [][Next]_vars

\* evaluate_rpn on one COMB element with integer and half-integer arguments
CombArgMax == 3

CombArgs == {Fraction(p, q) : p \in (-CombArgMax)..CombArgMax, q \in {1, 2}}

CombElements ==
    {Tok("COMB", <<kind, n, k>>) :
        kind \in COMBINATORICS, n \in CombArgs, k \in CombArgs \cup {None}}

InitRpn == \E e \in CombElements : StartRpn(<<e>>)

SpecRpn == InitRpn /\ [][NextRpn]_vars

\* The words of the modulo phrase, a function word, a numeral and the
\* filler in every order
TokenItems ==
    {<<"ostatok">>, <<"ot">>, <<"deleniya">>, <<"sinus">>, <<"dva">>,
     <<"na">>}

InitTokens == \E w \in Inputs(TokenItems, MaxItems + 1) : Start(w)

SpecTokens == InitTokens /\ [][Next]_vars

\* Runs of numeral words: a zero, a digit, a ten, a hundred and scale words
NumeralItems ==
    {<<"nol">>, <<"dva">>, <<"dvadtsat">>, <<"sto">>, <<"tysyacha">>,
     <<"tysyach">>, <<"million">>}

InitNumerals == \E w \in Inputs(NumeralItems, MaxItems) : Start(w)

SpecNumerals == InitNumerals /\ [][Next]_vars

\* Whole parts, the conjunction, numerators, decimal and ordinal denominator
\* words, an operator and a word outside the vocabulary in every order, and
\* a mixed number with each denominator word of the lexicon
MixedItems ==
    {<<"dva">>, <<"sto">>, <<"i">>, <<"sotyh">>, <<"tysyachnyh">>,
     <<"pyatyh">>, <<"plus">>, <<"abv">>}

MixedNumbers ==
    {a \o <<"i">> \o n \o <<d>> \o t :
        a \in {<<"nol">>, <<"dva">>, <<"sto", "dva">>},
        n \in {<<"odna">>, <<"dvadtsat", "tri">>},
        d \in DOMAIN ORDINAL_DENOMINATORS,
        t \in {<<>>, <<"plus", "dva">>}}

InitMixed ==
    \E w \in Inputs(MixedItems, MaxItems) \cup MixedNumbers : Start(w)

SpecMixed == InitMixed /\ [][Next]_vars

\* evaluate_rpn on every short postfix sequence of numbers, operators, the
\* unary minus, a function and a combinatorics element
MaxPostfix == 4

PostfixElements ==
    <<Tok("NUM", <<2, 1>>), Tok("NUM", Zero), Tok("NUM", <<-1, 2>>),
      Tok("OP", "+"), Tok("OP", "/"), Tok("OP", "NEG"),
      Tok("FUNC", "sinus"),
      Tok("COMB", <<"sochetaniy", <<3, 1>>, <<2, 1>>>>)>>

InitPostfix ==
    \E k \in 0..MaxPostfix : \E e \in [1..k -> DOMAIN PostfixElements] :
        StartRpn([j \in 1..k |-> PostfixElements[e[j]]])

SpecPostfix == InitPostfix /\ [][NextRpn]_vars

\* evaluate_rpn on one binary operator and two rationals of either sign
OperandMax == 5

Operands == {Fraction(p, q) : p \in (-OperandMax)..OperandMax, q \in 1..3}

BinaryRpn(a, b, op) == <<Tok("NUM", a), Tok("NUM", b), Tok("OP", op)>>

InitModulo == \E a \in Operands, b \in Operands : StartRpn(BinaryRpn(a, b, "%"))

SpecModulo == InitModulo /\ [][NextRpn]_vars

\* evaluate_rpn on a rational base to an integer exponent of either sign
PowerMax == 4

InitPower ==
    \E a \in Operands, e \in (-PowerMax)..PowerMax :
        StartRpn(BinaryRpn(a, <<e, 1>>, "^"))

SpecPower == InitPower /\ [][NextRpn]_vars

\* One number of either sign evaluated and rendered: whole part 0, 1 or 2 and
\* a fractional part over a denominator that is 1, a power of ten, or has
\* cycles of 1, 2, 3, 4, 5, 6, 16 and 22 digits
RenderMax == 25

RenderDenominators ==
    {1, 3, 4, 6, 7, 11, 12, 17, 23, 37, 41, 100, 101, 1000, 99999, 1000000}

RenderValues ==
    {Fraction(s * (w * q + n), q) :
        s \in {-1, 1}, w \in 0..2, n \in 0..RenderMax,
        q \in RenderDenominators}

InitRender == \E v \in RenderValues : StartRpn(<<Tok("NUM", v)>>)

SpecRender == InitRender /\ [][NextRender]_vars

\* ---------------------------------------------------------- main.py, calc

\* calc up to the call of shunting_yard_with_numbers
main_Tokenize ==
    /\ pc = "tokenize"
    /\ IF expression = <<>>
       THEN /\ pc' = "raised"
            /\ err' = "ParseError"
            /\ tokens' = tokens
       ELSE /\ pc' = "shunting_yard"
            /\ err' = err
            /\ tokens' = PiTransform(main_tokenize_expression(expression))
    /\ UNCHANGED <<expression, i, output_queue, operator_stack,
                   prev_was_value, rpn, ip, stack, result_fraction,
                   result_text>>

\* One iteration of the builder's while loop; there is no prev_was_value
main_ShuntStep ==
    /\ pc = "shunting_yard"
    /\ i < Len(tokens)
    /\ \E b \in {main_BuildToken(tokens, i, output_queue, operator_stack)} :
           /\ i' = b.i
           /\ output_queue' = b.output_queue
           /\ operator_stack' = b.operator_stack
           /\ err' = b.err
           /\ pc' = IF b.err = "none" THEN pc ELSE "raised"
    /\ UNCHANGED <<expression, tokens, prev_was_value, rpn, ip, stack,
                   result_fraction, result_text>>

\* The builder's final loop and return
main_ShuntFinish == ShuntFinish

\* One iteration of the evaluator's for loop
main_EvalStep ==
    /\ pc = "evaluate_rpn"
    /\ ip < Len(rpn)
    /\ \E o \in main_EvalElement(rpn[ip + 1], stack) :
           /\ stack' = o.stack
           /\ err' = o.err
           /\ pc' = IF o.err = "none" THEN pc ELSE "raised"
    /\ ip' = ip + 1
    /\ UNCHANGED <<expression, tokens, i, output_queue, operator_stack,
                   prev_was_value, rpn, result_fraction, result_text>>

\* The evaluator's return
main_EvalFinish == EvalFinish

\* calc's last step
main_Render ==
    /\ pc = "render"
    /\ pc' = "returned"
    /\ result_text' = IF IsApprox(result_fraction) THEN <<"approx">>
                      ELSE main_fraction_to_mixed_and_words(result_fraction)
    /\ UNCHANGED <<expression, tokens, i, output_queue, operator_stack,
                   prev_was_value, rpn, ip, stack, result_fraction, err>>

main_Next ==
    \/ main_Tokenize
    \/ main_ShuntStep
    \/ main_ShuntFinish
    \/ main_EvalStep
    \/ main_EvalFinish
    \/ main_Render

\* The example of the module's docstring
DocstringExample ==
    LP \o <<"pyat", "plus", "dva">> \o RP
    \o <<"umnozhit", "na", "tri", "minus", "odin">>

\* Numbers, operators, the connector and parentheses in every order, and
\* the docstring's example
MainItems ==
    {<<"pyat">>, <<"dva">>, <<"minus">>, <<"plus">>, <<"umnozhit">>,
     <<"razdelit">>, <<"na">>, LP, RP}

main_Init ==
    \E w \in Inputs(MainItems, MaxItems) \cup {DocstringExample} : Start(w)

SpecMain == main_Init /\ [][main_Next]_vars

\* Divisions with ending and repeating quotients, unary minus, parentheses,
\* a function and a combinatorics call in every order; calc runs to its end
TerminationItems ==
    {<<"odin">>, <<"dvadtsat", "tri">>, <<"razdelit", "na">>, <<"minus">>,
     LP, RP, <<"sinus", "ot">>, <<"sochetaniy", "iz">>}

MaxTerminationItems == 3

InitTermination ==
    \E w \in Inputs(TerminationItems, MaxTerminationItems) : Start(w)

SpecTermination == InitTermination /\ [][Next]_vars /\ WF_vars(Next)

\* Non-negative values whose quotients end, repeat early, repeat after 18,
\* 21 and 22 digits, and end after 21 and 22 digits
DivisionMax == 45

DivisionDenominators ==
    {1, 2, 3, 6, 7, 12, 17, 19, 23, 28, 43, 86, 101, 1024, 2097152, 4194304}

DivisionValues ==
    {Fraction(w * q + n, q) :
        w \in 0..2, n \in 0..DivisionMax, q \in DivisionDenominators}

InitDivision == \E v \in DivisionValues : StartRpn(<<Tok("NUM", v)>>)

SpecDivision == InitDivision /\ [][NextRender]_vars

\* Values, one of them the constant and one in parentheses, and binary
\* operators before, between and after them
TrailingItems ==
    {<<"dva">>, <<"pi">>, <<"plus">>, <<"umnozhit", "na">>, <<"minus">>,
     LP, RP}

InitTrailing == \E w \in Inputs(TrailingItems, MaxItems) : Start(w)

SpecTrailing == InitTrailing /\ [][Next]_vars

\* ---------------------------------------------- precedence and parentheses
\* The reference evaluation of an infix expression: a tree is read off the
\* symbols by splitting at the operator that is applied last.

RefNone == <<1, 0>>

RefOperators ==
    ("+" :> <<1, "left">>) @@ ("-" :> <<1, "left">>) @@ ("*" :> <<2, "left">>)
    @@ ("/" :> <<2, "left">>) @@ ("%" :> <<2, "left">>)
    @@ ("^" :> <<3, "right">>)

RefSymbol(kind, value, op) == [k |-> kind, v |-> value, o |-> op]

\* The symbols of the words of an infix expression
RECURSIVE RefSymbols(_)
RefSymbols(words) ==
    IF words = <<>> THEN <<>>
    ELSE LET w == words[1]
             From(n) == RefSymbols(SubSeq(words, n + 1, Len(words)))
             Na == IF Len(words) >= 2 /\ words[2] = "na" THEN 2 ELSE 1
         IN  IF w \in DOMAIN InfixNumbers
             THEN <<RefSymbol("num", <<InfixNumbers[w], 1>>, "")>> \o From(1)
             ELSE IF w = "skobka" /\ words[2] = "otkryvaetsya"
             THEN <<RefSymbol("(", Zero, "")>> \o From(2)
             ELSE IF w = "skobka"
             THEN <<RefSymbol(")", Zero, "")>> \o From(2)
             ELSE IF w = "plus" THEN <<RefSymbol("op", Zero, "+")>> \o From(1)
             ELSE IF w = "minus" THEN <<RefSymbol("op", Zero, "-")>> \o From(1)
             ELSE IF w = "umnozhit"
             THEN <<RefSymbol("op", Zero, "*")>> \o From(Na)
             ELSE IF w = "razdelit"
             THEN <<RefSymbol("op", Zero, "/")>> \o From(Na)
             ELSE IF w = "ostatok"
             THEN <<RefSymbol("op", Zero, "%")>> \o From(3)
             ELSE <<RefSymbol("op", Zero, "^")>> \o From(2)

\* a op b as an exact rational; RefNone where there is none (division by
\* zero, a power that is not rational) or the operands are out of range
RefApply(op, a, b) ==
    IF a[2] = 0 \/ b[2] = 0 \/ ~Small(a) \/ ~Small(b) THEN RefNone
    ELSE IF op = "+" THEN Add(a, b)
    ELSE IF op = "-" THEN Sub(a, b)
    ELSE IF op = "*" THEN Mul(a, b)
    ELSE IF op \in {"/", "%"} /\ b[1] = 0 THEN RefNone
    ELSE IF op = "/" THEN Div(a, b)
    ELSE IF op = "%" THEN Sub(a, Mul(b, FloorDiv(a, b)))
    ELSE IF b[2] # 1 THEN RefNone
    ELSE IF b[1] >= 0 THEN Pow(a, b[1])
    ELSE IF a[1] = 0 THEN RefNone
    ELSE IF ~Small(Pow(a, -b[1])) THEN RefNone
    ELSE Div(One, Pow(a, -b[1]))

\* Open minus close parentheses among the first j symbols
RefDepth(s, j) ==
    Cardinality({p \in 1..j : s[p].k = "("})
    - Cardinality({p \in 1..j : s[p].k = ")"})

\* The operator applied last: outside every parenthesis, of the lowest
\* precedence, the rightmost of a left-grouping precedence and the leftmost
\* of a right-grouping one
RefSplit(s) ==
    LET outer == {j \in 1..Len(s) : s[j].k = "op" /\ RefDepth(s, j) = 0}
        Prec(j) == RefOperators[s[j].o][1]
        lowest == {j \in outer : \A q \in outer : Prec(j) <= Prec(q)}
        any == CHOOSE j \in lowest : TRUE
    IN  IF outer = {} THEN 0
        ELSE IF RefOperators[s[any].o][2] = "left"
        THEN CHOOSE j \in lowest : \A q \in lowest : q <= j
        ELSE CHOOSE j \in lowest : \A q \in lowest : j <= q

RECURSIVE RefEval(_)
RefEval(s) ==
    IF Len(s) = 1 THEN s[1].v
    ELSE IF RefSplit(s) = 0 THEN RefEval(SubSeq(s, 2, Len(s) - 1))
    ELSE RefApply(s[RefSplit(s)].o,
                  RefEval(SubSeq(s, 1, RefSplit(s) - 1)),
                  RefEval(SubSeq(s, RefSplit(s) + 1, Len(s))))

RefValue(words) == RefEval(RefSymbols(words))

\* The postfix form of the same tree: left operand, right operand, operator
RECURSIVE RefPostfix(_)
RefPostfix(s) ==
    IF Len(s) = 1 THEN <<Tok("NUM", s[1].v)>>
    ELSE IF RefSplit(s) = 0 THEN RefPostfix(SubSeq(s, 2, Len(s) - 1))
    ELSE RefPostfix(SubSeq(s, 1, RefSplit(s) - 1))
         \o RefPostfix(SubSeq(s, RefSplit(s) + 1, Len(s)))
         \o <<Tok("OP", s[RefSplit(s)].o)>>

\* Two postfix sequences are the same, element by element
SamePostfix(a, b) ==
    /\ Len(a) = Len(b)
    /\ \A j \in 1..Len(a) : a[j].type = b[j].type /\ a[j].val = b[j].val

\* C1: for a well-formed infix expression the builder raises nothing and
\* hands the evaluator the postfix form of the reference tree (precedence 1
\* for + and -, 2 for *, / and %, 3 for ^, equal precedence grouped left to
\* right except ^, parentheses first); and when the reference evaluation
\* has a value, calc returns and the value it computed is that value.
C1_PrecedenceAndGrouping ==
    /\ pc = "raised" => ip > 0
    /\ (pc = "evaluate_rpn" /\ ip = 0)
       => SamePostfix(rpn, RefPostfix(RefSymbols(expression)))
    /\ (pc \in {"returned", "raised"} /\ RefValue(expression)[2] # 0)
       => pc = "returned" /\ result_fraction = RefValue(expression)

C1_Witness ==
    /\ pc = "returned"
    /\ expression = LP \o <<"pyat", "plus", "dva">> \o RP
                       \o <<"umnozhit", "na", "tri">>
    /\ result_fraction = <<21, 1>>
    /\ result_text = <<"dvadtsat", "odin">>

\* ------------------------------------------------------------- unary minus

\* A word run parse_mixed_or_decimal_number reads in full as one number
IsNumberRun(words) ==
    /\ words # <<>>
    /\ parse_mixed_or_decimal_number(words, 0).err = "none"
    /\ parse_mixed_or_decimal_number(words, 0).idx = Len(words) - 1

NumberValue(words) == parse_mixed_or_decimal_number(words, 0).val

\* words is a, "minus", "minus", b with the second "minus" at k + 1
IsDoubleMinus(words, k) ==
    /\ words[k] = "minus"
    /\ words[k + 1] = "minus"
    /\ IsNumberRun(SubSeq(words, 1, k - 1))
    /\ IsNumberRun(SubSeq(words, k + 2, Len(words)))

\* The token before index i completes a value / there is none that does
ValueBefore(toks, idx) ==
    idx > 0 /\ toks[idx].type \in {"WORD", "NUM", "RPAREN"}

NoValueBefore(toks, idx) ==
    idx = 0 \/ toks[idx].type \in {"LPAREN", "OP", "FUNC"}

\* C2: the builder pushes NEG for a "-" token exactly when no completed
\* value stands before it (start, after an open parenthesis, an operator or
\* a function token) and the binary "-" exactly when a number, a
\* combinatorics call or a close parenthesis does; and "a minus minus b"
\* is evaluated to a + b.
C2_UnaryMinus ==
    /\ [][(ShuntStep /\ tokens[i + 1].type = "OP" /\ tokens[i + 1].val = "-")
            => /\ err' = "none"
               /\ operator_stack' # <<>>
               /\ (operator_stack'[Len(operator_stack')].val = "NEG")
                    <=> NoValueBefore(tokens, i)
               /\ (operator_stack'[Len(operator_stack')].val = "-")
                    <=> ValueBefore(tokens, i)]_vars
    /\ [](\A k \in 2..(Len(expression) - 2) :
             IsDoubleMinus(expression, k)
             => /\ pc # "raised"
                /\ pc \in {"render", "returned"}
                   => result_fraction =
                        Add(NumberValue(SubSeq(expression, 1, k - 1)),
                            NumberValue(SubSeq(expression, k + 2,
                                               Len(expression)))))

C2_Witness ==
    /\ pc = "returned"
    /\ expression = <<"pyat", "minus", "minus", "odin">>
    /\ rpn[3] = Tok("OP", "NEG")
    /\ rpn[4] = Tok("OP", "-")
    /\ result_fraction = <<6, 1>>

\* --------------------------------------------------------- function tokens

\* C3: a function applied to a value preceded by unary minus is evaluated:
\* for every numeral x, "sinus ot minus x" (and the other functions) does
\* not end in an exception.
C3_FunctionOfNegated ==
    (/\ Len(expression) = 4
     /\ expression[1] \in FUNCTIONS
     /\ expression[2] = "ot"
     /\ expression[3] = "minus"
     /\ IsNumberRun(<<expression[4]>>))
    => pc # "raised"

\* --------------------------------------------------------- division by zero

IsDivisionElement(elem) == elem.type = "OP" /\ elem.val \in {"/", "%"}

\* words is a number followed by a division or modulo phrase and "nol"
IsDivisionByZero(words) ==
    \E k \in 1..Len(words) :
        /\ IsNumberRun(SubSeq(words, 1, k))
        /\ SubSeq(words, k + 1, Len(words))
               \in {<<"razdelit", "na", "nol">>,
                    <<"ostatok", "ot", "deleniya", "nol">>}

\* C4: a "/" or "%" element whose right operand is zero raises MathError and
\* pushes nothing; and calc on a number divided by, or taken modulo, "nol"
\* ends in MathError and never returns.
C4_DivisionByZero ==
    /\ [][(/\ EvalStep
           /\ IsDivisionElement(rpn[ip + 1])
           /\ Len(stack) >= 2
           /\ stack[Len(stack)] = Zero)
            => /\ pc' = "raised"
               /\ err' = "MathError"
               /\ stack' = SubSeq(stack, 1, Len(stack) - 2)]_vars
    /\ [](IsDivisionByZero(expression)
            => /\ pc \notin {"render", "returned"}
               /\ pc = "raised" => err = "MathError")

C4_Witness ==
    /\ pc = "raised"
    /\ err = "MathError"
    /\ expression = <<"dva", "ostatok", "ot", "deleniya", "nol">>
    /\ ip = 3

\* ---------------------------------------------------------- exception kinds

\* C5: an exception that leaves calc is a ParseError or a MathError
C5_OnlyCalcErrors == pc = "raised" => err \in {"ParseError", "MathError"}

\* -------------------------------------------------------------- parentheses

\* Open markers minus close markers among the first j tokens
ParenDepth(toks, j) ==
    Cardinality({p \in 1..j : toks[p].type = "LPAREN"})
    - Cardinality({p \in 1..j : toks[p].type = "RPAREN"})

Balanced(toks) ==
    /\ \A j \in 1..Len(toks) : ParenDepth(toks, j) >= 0
    /\ ParenDepth(toks, Len(toks)) = 0

HasOpenMarker(stk) ==
    \E p \in 1..Len(stk) : stk[p].type = "LPAREN"

\* C6: a close parenthesis met while no open marker is on the operator
\* stack raises ParseError at that token, an open marker left on the stack
\* at the end of the input raises ParseError, and the builder hands a
\* postfix sequence to the evaluator only for balanced token sequences.
C6_UnbalancedParentheses ==
    /\ [][(/\ ShuntStep
           /\ tokens[i + 1].type = "RPAREN"
           /\ ~HasOpenMarker(operator_stack))
            => pc' = "raised" /\ err' = "ParseError" /\ i' = i]_vars
    /\ [][(ShuntFinish /\ HasOpenMarker(operator_stack))
            => pc' = "raised" /\ err' = "ParseError" /\ rpn' = rpn]_vars
    /\ [][(ShuntFinish /\ pc' = "evaluate_rpn") => Balanced(tokens)]_vars
    /\ [](~Balanced(tokens) => pc \in {"shunting_yard", "raised"})

C6_Witness ==
    /\ pc = "raised"
    /\ err = "ParseError"
    /\ expression = LP \o <<"pyat">>
    /\ i = Len(tokens)
    /\ tokens[1].type = "LPAREN"

\* --------------------------------------------------------------- round trip

\* C7: the words of n are parsed in full to n, and calc on the words of n
\* returns those words
C7_RoundTrip ==
    /\ pc # "raised"
    /\ (pc = "returned" /\ expression = <<>>)
       => /\ result_fraction[2] = 1
          /\ result_text = int_to_words(result_fraction[1])
          /\ parse_simple_number_words(result_text, 0)
               = Return(result_fraction[1], Len(result_text) - 1)
    /\ (pc = "returned" /\ expression # <<>>) => result_text = expression

C7_Witness ==
    /\ pc = "returned"
    /\ expression = int_to_words(999999)
    /\ Len(expression) = 7
    /\ result_fraction = <<999999, 1>>
    /\ result_text = expression

\* ------------------------------------------------------------- combinatorics

\* n (n - 1) ... (n - k + 1)
RECURSIVE RefFalling(_, _)
RefFalling(n, k) == IF k = 0 THEN 1 ELSE n * RefFalling(n - 1, k - 1)

\* Pascal's triangle
RECURSIVE RefBinomial(_, _)
RefBinomial(n, k) ==
    IF k = 0 \/ k = n THEN 1
    ELSE RefBinomial(n - 1, k - 1) + RefBinomial(n - 1, k)

\* calc does not raise, computes v and renders it
Answers(v) ==
    /\ pc # "raised"
    /\ pc \in {"render", "returned"} => result_fraction = <<v, 1>>
    /\ pc = "returned" => result_text = int_to_words(v)

\* C8: for 0 <= k <= n, "perestanovok iz n" is n!, "razmeshcheniy iz n po k"
\* is n!/(n-k)! and "sochetaniy iz n po k" is n!/(k!(n-k)!), as integers
C8_Combinatorics ==
    \A n \in 0..MaxN : \A k \in 0..n :
        /\ expression = CombInput("perestanovok", n)
           => Answers(RefFalling(n, n))
        /\ expression = CombInputK("razmeshcheniy", n, k)
           => Answers(RefFalling(n, k))
        /\ expression = CombInputK("sochetaniy", n, k)
           => Answers(RefBinomial(n, k))

C8_Witness ==
    /\ pc = "returned"
    /\ expression = <<"sochetaniy", "iz", "pyat", "po", "tri">>
    /\ result_fraction = <<10, 1>>
    /\ result_text = <<"desyat">>

\* The arguments of a COMB element, read as integers, are out of domain
IsOutOfDomain(elem_val) ==
    IF elem_val[3] = None THEN Trunc(elem_val[2]) < 0
    ELSE \/ Trunc(elem_val[3]) > Trunc(elem_val[2])
         \/ Trunc(elem_val[2]) < 0
         \/ Trunc(elem_val[3]) < 0

\* C9 as stated: every COMB element whose arguments are out of domain, with
\* k present or absent, pushes 0 and raises nothing
C9_OutOfDomainPushesZero ==
    [][(/\ EvalStep
        /\ rpn[ip + 1].type = "COMB"
        /\ IsOutOfDomain(rpn[ip + 1].val))
        => err' = "none" /\ stack' = Append(stack, Zero)]_vars

\* C9: a COMB element whose arguments are out of domain pushes 0 and raises
\* nothing when k is present; when k is absent (and n < 0) it raises
\* MathError and pushes nothing
C9_OutOfDomain ==
    [][(/\ EvalStep
        /\ rpn[ip + 1].type = "COMB"
        /\ IsOutOfDomain(rpn[ip + 1].val))
        => IF rpn[ip + 1].val[3] # None
           THEN err' = "none" /\ stack' = Append(stack, Zero)
           ELSE pc' = "raised" /\ err' = "MathError" /\ stack' = stack]_vars

C9_Witness ==
    /\ pc = "raised"
    /\ err = "MathError"
    /\ rpn = <<Tok("COMB", <<"perestanovok", <<-1, 1>>, None>>)>>
    /\ stack = <<>>

\* ----------------------------------------------------------- longest phrase

ModuloPhrase == <<"ostatok", "ot", "deleniya">>

\* The 0-based positions where the three words of the modulo phrase stand
ModuloStarts(words) ==
    {k \in 0..(Len(words) - 3) : SubSeq(words, k + 1, k + 3) = ModuloPhrase}

\* The 0-based positions where the tokenizer's loop takes a token
RECURSIVE TokenStartsFrom(_, _)
TokenStartsFrom(words, k) ==
    IF k >= Len(words) THEN {}
    ELSE {k} \cup TokenStartsFrom(words, k + TokenizeAt(words, k).n)

\* The length of the longest phrase of PHRASE_TOKENS at position k, 1 when
\* there is none
LongestPhraseAt(words, k) ==
    LET lens == {Len(PHRASE_TOKENS[p]) : p \in
                   {q \in 1..Len(PHRASE_TOKENS) :
                      k + Len(PHRASE_TOKENS[q]) <= Len(words)
                      /\ \A j \in 1..Len(PHRASE_TOKENS[q]) :
                            words[k + j] = PHRASE_TOKENS[q][j]}}
    IN  IF lens = {} THEN 1 ELSE CHOOSE m \in lens : \A l \in lens : l <= m

\* The number of tokens of toks with this type and value
CountTokens(toks, type, val) ==
    Cardinality({t \in 1..Len(toks) :
                   toks[t].type = type /\ toks[t].val = val})

\* The 1-based positions of word w that are outside every modulo phrase
OutsideModulo(words, w) ==
    {p \in 1..Len(words) :
        words[p] = w /\ \A k \in ModuloStarts(words) : p <= k \/ p > k + 3}

\* C11: the tokenizer takes, at every position where it takes a token, the
\* longest phrase of PHRASE_TOKENS that starts there; every occurrence of
\* the words "ostatok", "ot", "deleniya" in a row gives one OP token "%",
\* and the WORD tokens with these words come only from occurrences outside
\* the phrase.
C11_LongestPhrase ==
    (pc # "tokenize" /\ expression # <<>>)
    => /\ \A k \in TokenStartsFrom(expression, 0) :
             TokenizeAt(expression, k).n = LongestPhraseAt(expression, k)
       /\ ModuloStarts(expression) \subseteq TokenStartsFrom(expression, 0)
       /\ CountTokens(tokens, "OP", "%")
            = Cardinality(ModuloStarts(expression))
       /\ CountTokens(tokens, "WORD", "ostatok")
            = Cardinality(OutsideModulo(expression, "ostatok"))
       /\ CountTokens(tokens, "WORD", "deleniya")
            = Cardinality(OutsideModulo(expression, "deleniya"))
       /\ CountTokens(tokens, "WORD", "ot")
            = Cardinality({p \in OutsideModulo(expression, "ot") :
                             p = 1 \/ expression[p - 1] \notin FUNCTIONS})

C11_Witness ==
    /\ pc = "shunting_yard"
    /\ expression = <<"dva", "ostatok", "ot", "deleniya", "dva">>
    /\ tokens = <<Tok("WORD", "dva"), Tok("OP", "%"), Tok("WORD", "dva")>>

\* -------------------------------------------------------------- place value

\* The value of a digit, ten or hundred word
RefWordValue(w) ==
    IF w \in DOMAIN SIMPLE_NUM THEN SIMPLE_NUM[w]
    ELSE IF w \in DOMAIN TENS THEN TENS[w]
    ELSE HUNDREDS[w]

\* The sum over the scale words, from word k on, of block x scale, plus the
\* last block; with one_for_zero a block of 0 counts as 1 before a scale word
RECURSIVE RefPlaceValue(_, _, _, _)
RefPlaceValue(words, k, block, one_for_zero) ==
    IF k > Len(words) THEN block
    ELSE IF words[k] \in DOMAIN SCALES
    THEN (IF one_for_zero /\ block = 0 THEN 1 ELSE block) * SCALES[words[k]]
         + RefPlaceValue(words, k + 1, 0, one_for_zero)
    ELSE RefPlaceValue(words, k + 1, block + RefWordValue(words[k]),
                       one_for_zero)

\* The builder parsed the whole run of numeral words to the number v
ParsedTo(v) ==
    pc = "evaluate_rpn" => rpn = <<Tok("NUM", <<v, 1>>)>> /\ i = Len(tokens)

\* C12 as stated: the value of a run of numeral words is the sum over its
\* scale words of block x scale plus the last block, a block of 0 included
C12_PlaceValueZeroBlock ==
    expression # <<>> => ParsedTo(RefPlaceValue(expression, 1, 0, FALSE))

\* C12: the value of a run of numeral words is the sum over its scale words
\* of block x scale plus the last block, where a block of 0 (no word, or
\* words of sum 0, since the previous scale word) counts as 1
C12_PlaceValue ==
    expression # <<>>
    => /\ ParsedTo(RefPlaceValue(expression, 1, 0, TRUE))
       /\ pc # "raised"

C12_Witness ==
    /\ pc = "evaluate_rpn"
    /\ expression = <<"nol", "tysyach", "dvadtsat", "dva">>
    /\ rpn = <<Tok("NUM", <<1022, 1>>)>>

\* ------------------------------------------------------------ mixed numbers

NumeralWords ==
    DOMAIN SIMPLE_NUM \cup DOMAIN TENS \cup DOMAIN HUNDREDS \cup DOMAIN SCALES

\* The number of numeral words in a row from the k-th word on
RECURSIVE NumeralRun(_, _)
NumeralRun(words, k) ==
    IF k > Len(words) \/ words[k] \notin NumeralWords THEN 0
    ELSE 1 + NumeralRun(words, k + 1)

\* The words the builder hands to the number parser at the first token
FirstRun == IF tokens = <<>> THEN <<>> ELSE WordRun(tokens, 0, FALSE)

\* The first run is p numeral words, the conjunction, q numeral words and
\* whatever follows
IsWholeAndConjunction(run, p) == p >= 1 /\ p < Len(run) /\ run[p + 1] = "i"

\* ... and the word after the q numerator words is a denominator word
IsMixedNumber(run, p, q) ==
    /\ IsWholeAndConjunction(run, p)
    /\ q >= 1
    /\ p + q + 2 <= Len(run)
    /\ run[p + q + 2] \in DOMAIN ORDINAL_DENOMINATORS

\* A + N/d, as one fraction
RefMixedValue(run, p, q) ==
    LET A == RefPlaceValue(SubSeq(run, 1, p), 1, 0, TRUE)
        N == RefPlaceValue(SubSeq(run, p + 2, p + q + 1), 1, 0, TRUE)
        d == ORDINAL_DENOMINATORS[run[p + q + 2]]
    IN  Fraction(A * d + N, d)

\* The builder is past its first token
FirstTokenDone == pc # "tokenize" /\ ~(pc = "shunting_yard" /\ i = 0)

\* The builder has taken its first token and nothing else
FirstTokenOnly ==
    /\ pc = "shunting_yard"
    /\ i > 0
    /\ Len(output_queue) = 1
    /\ operator_stack = <<>>

MixedParsed(run, p, q) ==
    IsMixedNumber(run, p, q) /\ FirstTokenDone
    => /\ output_queue # <<>>
       /\ output_queue[1].type = "NUM"
       /\ output_queue[1].val = RefMixedValue(run, p, q)
       /\ i >= p + q + 2
       /\ FirstTokenOnly => i = p + q + 2

\* C13: an integer run of value A, the conjunction, numerator words of value
\* N and a denominator word parse to exactly A + N/100, A + N/1000 or A + N/d,
\* and the parser returns the index of the denominator word
C13_MixedNumber ==
    MixedParsed(FirstRun, NumeralRun(FirstRun, 1),
                NumeralRun(FirstRun, NumeralRun(FirstRun, 1) + 2))

C13_Witness ==
    /\ expression = <<"sto", "dva", "i", "dvadtsat", "tri", "tysyachnyh",
                      "plus", "dva">>
    /\ FirstTokenOnly
    /\ i = 6
    /\ output_queue = <<Tok("NUM", <<102023, 1000>>)>>

\* The conjunction is not followed by a valid fractional descriptor: it is
\* the last word, or the word after it is no numeral, or the numerator is
\* the last word, or the word after the numerator is no denominator word
NoDescriptor(run, p, q) ==
    /\ IsWholeAndConjunction(run, p)
    /\ \/ Len(run) = p + 1
       \/ q = 0
       \/ Len(run) = p + q + 1
       \/ /\ run[p + q + 2] \notin DOMAIN ORDINAL_DENOMINATORS
          /\ StripEnding(run[p + q + 2]) = ""

RejectedAsParseError(run, p, q) ==
    NoDescriptor(run, p, q) /\ FirstTokenDone
    => pc = "raised" /\ err = "ParseError" /\ i = 0

\* C14: when the conjunction follows an integer run and no valid fractional
\* descriptor follows it, number parsing fails with ParseError
C14_NoDescriptor ==
    RejectedAsParseError(FirstRun, NumeralRun(FirstRun, 1),
                         NumeralRun(FirstRun, NumeralRun(FirstRun, 1) + 2))

\* The same for the three cases where a word follows the conjunction
C14_NoDescriptorAfterWord ==
    Len(FirstRun) > NumeralRun(FirstRun, 1) + 1 => C14_NoDescriptor

\* ----------------------------------------------------------------- operands

\* The operands the claim gives each element: two for a binary operator, one
\* for the unary minus and for a function
OperandsNeeded(elem) ==
    IF elem.type = "FUNC" THEN 1
    ELSE IF elem.type # "OP" THEN 0
    ELSE IF elem.val = "NEG" THEN 1
    ELSE 2

RaisesParseError == pc' = "raised" /\ err' = "ParseError"

\* One step of evaluate_rpn as the claim has it
OperandsStep ==
    /\ (pc = "evaluate_rpn" /\ ip < Len(rpn)
           /\ Len(stack) < OperandsNeeded(rpn[ip + 1]))
       => RaisesParseError
    /\ (pc = "evaluate_rpn" /\ ip >= Len(rpn) /\ Len(stack) # 1)
       => RaisesParseError
    /\ pc' = "render"
       => /\ pc = "evaluate_rpn"
          /\ ip = Len(rpn)
          /\ Len(stack) = 1
          /\ result_fraction' = stack[1]

\* C15: evaluate_rpn raises ParseError whenever an element finds too few
\* operands on the stack and whenever the stack does not hold exactly one
\* value after the whole sequence; it returns only when exactly one remains
C15_Operands == [][OperandsStep]_vars

C15_Witness ==
    /\ pc = "raised"
    /\ err = "ParseError"
    /\ ip = 3
    /\ stack = <<<<-2, 1>>>>
    /\ Len(rpn) = 3
    /\ rpn[1].type = "NUM"
    /\ rpn[2].type = "OP" /\ rpn[2].val = "NEG"
    /\ rpn[3].type = "OP" /\ rpn[3].val = "+"

\* ------------------------------------------------------------------- modulo

RefLess(x, y) == x[1] * y[2] < y[1] * x[2]

RefLessEq(x, y) == x[1] * y[2] <= y[1] * x[2]

\* The sequence evaluated is a, b and the operator op
IsBinaryRpn(op) ==
    /\ Len(rpn) = 3
    /\ rpn[1].type = "NUM"
    /\ rpn[2].type = "NUM"
    /\ rpn[3].type = "OP"
    /\ rpn[3].val = op

\* k is the floor of x: the integer with k <= x < k + 1
IsFloorOf(k, x) ==
    k[2] = 1 /\ RefLessEq(k, x) /\ RefLess(x, <<k[1] + 1, 1>>)

\* r has the sign of the divisor b and is nearer to zero
HasSignOf(r, b) ==
    IF RefLess(Zero, b) THEN RefLessEq(Zero, r) /\ RefLess(r, b)
    ELSE RefLess(b, r) /\ RefLessEq(r, Zero)

IsRemainder(r, a, b) ==
    /\ HasSignOf(r, b)
    /\ IsFloorOf(Div(Sub(a, r), b), Div(a, b))

\* C16: for b # 0 the operator % returns r = a - b * floor(a / b), which has
\* the sign of the divisor (0 <= r < b or b < r <= 0) and leaves a - r an
\* integer multiple of b
C16_Modulo ==
    IsBinaryRpn("%") /\ rpn[2].val # Zero
    => /\ pc # "raised"
       /\ pc = "render" => IsRemainder(result_fraction, rpn[1].val, rpn[2].val)

C16_Witness ==
    /\ IsBinaryRpn("%")
    /\ rpn[1].val = <<-5, 2>>
    /\ rpn[2].val = <<2, 3>>
    /\ pc = "render"
    /\ result_fraction = <<1, 6>>

\* ------------------------------------------------------------------- powers

\* a multiplied e times, for e >= 0
RECURSIVE RefPower(_, _)
RefPower(a, e) == IF e = 0 THEN One ELSE Mul(a, RefPower(a, e - 1))

\* a to the integer e: the reciprocal of a to the -e for a negative e
RefIntegerPower(a, e) ==
    IF e >= 0 THEN RefPower(a, e) ELSE Div(One, RefPower(a, -e))

\* C17: for a rational base a and an integer exponent e the operator ^
\* returns the exact rational a^e (1 / a^|e| for e < 0 and a # 0), with no
\* floating-point approximation
C17_IntegerPower ==
    (IsBinaryRpn("^") /\ rpn[2].val[2] = 1
        /\ (rpn[2].val[1] >= 0 \/ rpn[1].val # Zero))
    => /\ pc # "raised"
       /\ pc = "render"
          => /\ ~IsApprox(result_fraction)
             /\ result_fraction = RefIntegerPower(rpn[1].val, rpn[2].val[1])

C17_Witness ==
    /\ IsBinaryRpn("^")
    /\ rpn[1].val = <<-2, 3>>
    /\ rpn[2].val = <<-3, 1>>
    /\ pc = "render"
    /\ result_fraction = <<-27, 8>>

\* ---------------------------------------------------------------- rendering

RefSign(v) == IF v[1] < 0 THEN <<"minus">> ELSE <<>>

RefWhole(v) == Abs(v[1]) \div v[2]

RefNumerator(v) == Abs(v[1]) % v[2]

RefWholeWords(v) ==
    IF RefWhole(v) = 0 THEN <<"nol">> ELSE int_to_words(RefWhole(v))

\* The text ends with the marker of the periodic form
IsPeriodicForm(text) ==
    /\ Len(text) >= 2
    /\ text[Len(text) - 1] = "v"
    /\ text[Len(text)] = "periode"

DecimalWord(d) ==
    IF d = 100 THEN "sotyh" ELSE IF d = 1000 THEN "tysyachnyh" ELSE "millionnyh"

\* The decision for the result v rendered as text
DecisionOrder(v, text) ==
    /\ v[2] = 1 => text = RefSign(v) \o RefWholeWords(v)
    /\ v[2] \in {100, 1000, 1000000}
       => text = RefSign(v) \o RefWholeWords(v) \o <<"i">>
                 \o int_to_words(RefNumerator(v)) \o <<DecimalWord(v[2])>>
    /\ IsPeriodicForm(text) => v[2] \notin {1, 100, 1000, 1000000}

\* C18: a result with zero fractional part is rendered as the words of the
\* integer ("minus" before a negative one, "nol" for 0); otherwise a reduced
\* fractional part over 100, 1000 or 1000000 is rendered as integer words,
\* "i", numerator words and the denominator's word; the periodic form is
\* used in neither case
C18_DecisionOrder ==
    pc = "returned" => DecisionOrder(result_fraction, result_text)

C18_Witness ==
    /\ pc = "returned"
    /\ result_fraction = <<-2000003, 1000000>>
    /\ result_text = <<"minus", "dva", "i", "tri", "millionnyh">>

\* The remainder of the long division of r by d after k digits
RECURSIVE RefRemainder(_, _, _)
RefRemainder(d, r, k) ==
    IF k = 0 THEN r ELSE RefRemainder(d, (10 * r) % d, k - 1)

\* The digits after which a remainder comes back: those before the cycle
\* and those of the cycle, as far as found in limit digits; 0 when it
\* is not
RefCycleEnd(d, r, limit) ==
    LET ends == {j \in 1..limit :
                    \E k \in 0..(j - 1) :
                        RefRemainder(d, r, k) = RefRemainder(d, r, j)}
    IN  IF ends = {} THEN 0
        ELSE CHOOSE j \in ends : \A j2 \in ends : j <= j2

\* The digits before the cycle that ends after j digits
RefCycleStart(d, r, j) ==
    CHOOSE k \in 0..(j - 1) : RefRemainder(d, r, k) = RefRemainder(d, r, j)

\* The digits lo + 1 .. hi of the expansion, read as one integer
RECURSIVE RefNumber(_, _, _, _)
RefNumber(d, r, lo, hi) ==
    IF hi <= lo THEN 0
    ELSE 10 * RefNumber(d, r, lo, hi - 1)
         + (10 * RefRemainder(d, r, hi - 1)) \div d

\* The words of at most the first four digits of the cycle m + 1 .. j
RefCycleWords(d, r, m, j) ==
    int_to_words(RefNumber(d, r, m, IF j - m < 4 THEN j ELSE m + 4))

RefPeriodicText(v, m, j) ==
    RefSign(v) \o RefWholeWords(v) \o <<"i">>
    \o (IF m = 0 THEN <<"nol">>
        ELSE int_to_words(RefNumber(v[2], RefNumerator(v), 0, m)))
    \o <<"i">> \o RefCycleWords(v[2], RefNumerator(v), m, j)
    \o <<"v", "periode">>

RefGenericText(v) ==
    RefSign(v)
    \o (IF RefWhole(v) = 0 THEN <<>> ELSE int_to_words(RefWhole(v)) \o <<"i">>)
    \o fraction_to_words(<<RefNumerator(v), v[2]>>)

\* The decimal expansion of a fraction with denominator d ends
RefTerminates(d) == 1000000000 % d = 0

\* v is rendered in the periodic form whenever its cycle is found in limit
\* digits, and as a fraction otherwise
PeriodicWithin(v, text, j) ==
    IF j > 0
    THEN text = RefPeriodicText(v, RefCycleStart(v[2], RefNumerator(v), j), j)
    ELSE text = RefGenericText(v)

LastWords(text, n) == SubSeq(text, Len(text) - n + 1, Len(text))

CycleRendered(text, words) ==
    /\ Len(text) >= Len(words) + 3
    /\ LastWords(text, Len(words) + 3) = <<"i">> \o words \o <<"v", "periode">>

CycleCapped(v, text, j) ==
    /\ j > 0
    /\ CycleRendered(text, RefCycleWords(v[2], RefNumerator(v),
                         RefCycleStart(v[2], RefNumerator(v), j), j))

\* C20: the cycle of the periodic form is the first min(4, L) digits of the
\* cycle of length L, read as one integer; later digits are not rendered
C20_CycleCapped ==
    (pc = "returned" /\ IsPeriodicForm(result_text))
    => CycleCapped(result_fraction, result_text,
                   RefCycleEnd(result_fraction[2],
                               RefNumerator(result_fraction), 20))

C20_Witness ==
    /\ pc = "returned"
    /\ result_fraction = <<1, 7>>
    /\ result_text = <<"nol", "i", "nol", "i", "odin", "tysyacha",
                       "chetyresta", "dvadtsat", "vosem", "v", "periode">>

\* -------------------------------------------------- the text and the value

\* No other value of the set others is rendered as text
RenderedAsNoOther(v, text, others) ==
    \A y \in others : y # v => fraction_to_mixed_and_words(y) # text

\* C21: two different exact results are never rendered as the same text,
\* so the text determines the result
C21_TextDeterminesValue ==
    pc = "returned"
    => RenderedAsNoOther(result_fraction, result_text, RenderValues)

\* -------------------------------------------------- thousands and millions

\* The form, of <<singular, paucal, genitive plural>>, after the count c
RefPluralForm(c, forms) ==
    IF c % 100 \in 11..14 THEN forms[3]
    ELSE IF c % 10 = 1 THEN forms[1]
    ELSE IF c % 10 \in 2..4 THEN forms[2]
    ELSE forms[3]

\* The words of n >= 1 with both scale words formed by the one rule
RefScaleWords(n) ==
    LET millions == n \div 1000000
        thousands == (n % 1000000) \div 1000
        rest == n % 1000
    IN  (IF millions = 0 THEN <<>>
         ELSE int_to_words(millions)
              \o <<RefPluralForm(millions,
                                 <<"million", "milliona", "millionov">>)>>)
        \o (IF thousands = 0 THEN <<>>
            ELSE _hundreds_to_words(thousands)
                 \o <<RefPluralForm(thousands,
                                    <<"tysyacha", "tysyachi", "tysyach">>)>>)
        \o (IF rest = 0 THEN <<>> ELSE _hundreds_to_words(rest))

\* C22: int_to_words forms the thousand word and the million word by the
\* same rule from the count before it: genitive plural for 11..14 mod 100,
\* else singular for 1 mod 10, else paucal for 2..4 mod 10, else genitive
\* plural
C22_ScaleWordForms ==
    (pc = "returned" /\ result_fraction[2] = 1 /\ result_fraction[1] >= 1)
    => result_text = RefScaleWords(result_fraction[1])

\* The same for the results below one million
C22_ThousandForms ==
    (pc = "returned" /\ result_fraction[2] = 1 /\ result_fraction[1] >= 1
        /\ result_fraction[1] < 1000000)
    => result_text = RefScaleWords(result_fraction[1])

\* ------------------------------------------------------------------ main.py

\* The expression is the words of a, then words, then the words of b
IsBinaryPhrase(words) ==
    \E a \in 0..9, b \in 1..9 :
        expression = int_to_words(a) \o words \o int_to_words(b)

\* C23: main.py's calc evaluates the example of its docstring to the words
\* for 20, and it accepts the connector "na" after "umnozhit" and
\* "razdelit"
C23_ConnectorAccepted ==
    /\ expression = DocstringExample
       => /\ pc # "raised"
          /\ pc = "returned" => result_text = <<"dvadtsat">>
    /\ (IsBinaryPhrase(<<"umnozhit", "na">>)
           \/ IsBinaryPhrase(<<"razdelit", "na">>))
       => pc # "raised"

\* The same phrases without the connector
C23_WithoutConnector ==
    (IsBinaryPhrase(<<"umnozhit">>) \/ IsBinaryPhrase(<<"razdelit">>))
    => pc # "raised"

\* C24: main.py's calc evaluates "a minus minus b" to a + b and a leading
\* "minus a" to -a
C24_UnaryMinus ==
    \A a \in 0..9 :
        /\ \A b \in 0..9 :
               expression = int_to_words(a) \o <<"minus", "minus">>
                            \o int_to_words(b)
               => /\ pc # "raised"
                  /\ pc = "returned" => result_fraction = <<a + b, 1>>
        /\ expression = <<"minus">> \o int_to_words(a)
           => /\ pc # "raised"
              /\ pc = "returned" => result_fraction = <<-a, 1>>

\* -------------------------------------------------------------- termination

\* The stages of calc in the order it goes through them
StageOrder(stage) ==
    IF stage = "tokenize" THEN 1
    ELSE IF stage = "shunting_yard" THEN 2
    ELSE IF stage = "evaluate_rpn" THEN 3
    ELSE IF stage = "render" THEN 4
    ELSE 5

\* Every iteration of the tokenizer's loop consumes a word
TokenizerAdvances ==
    \A k \in 0..(Len(expression) - 1) : TokenizeAt(expression, k).n >= 1

\* The long division of the result stops after at most 21 digits
DivisionCapped ==
    (pc \in {"render", "returned"} /\ ~IsApprox(result_fraction))
    => Len(DivisionLoop(result_fraction[2],
                        Abs(result_fraction[1]) % result_fraction[2],
                        <<>>, <<>>).decimals)
       <= max_nonrepeat + max_period + 5

\* Every step moves calc on: an iteration of the builder consumes a token
\* and moves what it pops from the stack to the output, an iteration of the
\* evaluator consumes an element, and a stage is never entered again
TerminationStep ==
    /\ StageOrder(pc) <= StageOrder(pc')
    /\ (pc = "shunting_yard" /\ pc' = "shunting_yard")
       => /\ i' > i
          /\ i' <= Len(tokens)
          /\ Len(operator_stack') <= Len(operator_stack) + 1
          /\ Len(operator_stack') + Len(output_queue')
             <= Len(operator_stack) + Len(output_queue) + 1
    /\ (pc = "evaluate_rpn" /\ pc' = "evaluate_rpn") => ip' > ip /\ ip' <= Len(rpn)
    /\ pc = pc' => pc \in {"shunting_yard", "evaluate_rpn"}

\* C25: every invocation of calc returns or raises: the tokenizer and the
\* builder consume input on every iteration, the stack loops pop, and the
\* long division stops after at most 21 digits
C25_Terminates ==
    /\ [](TokenizerAdvances /\ DivisionCapped)
    /\ [][TerminationStep]_vars
    /\ <>(pc \in {"returned", "raised"})

C25_Witness ==
    /\ pc = "returned"
    /\ expression = <<"odin", "razdelit", "na", "dvadtsat", "tri">>
    /\ tokens # <<>>
    /\ result_fraction = <<1, 23>>
    /\ Len(DivisionLoop(23, 1, <<>>, <<>>).decimals) = 21

\* ------------------------------------------------------------ long division

\* Pairwise coprime moduli whose product exceeds 10^32: two integers below
\* it are equal when they are congruent modulo each
Moduli == {46337, 46327, 46309, 46307, 46301, 46279, 46273}

MulMod(a, b, m) == ((a % m) * (b % m)) % m

RECURSIVE Pow10Mod(_, _)
Pow10Mod(k, m) == IF k = 0 THEN 1 ELSE (10 * Pow10Mod(k - 1, m)) % m

\* A digit string read as an integer, modulo m
RECURSIVE DigitsMod(_, _)
DigitsMod(digits, m) ==
    IF digits = <<>> THEN 0
    ELSE (10 * DigitsMod(SubSeq(digits, 1, Len(digits) - 1), m)
          + digits[Len(digits)]) % m

\* fr = I + A/10^p + R/(10^p * (10^L - 1)) multiplied out, modulo m:
\* num * 10^p * (10^L - 1) = den * ((I * 10^p + A) * (10^L - 1) + R)
ReconstructsMod(fr, pieces, m) ==
    LET P == Pow10Mod(Len(pieces.nonrep), m)
        Q == (Pow10Mod(Len(pieces.rep), m) + m - 1) % m
        A == DigitsMod(pieces.nonrep, m)
        R == DigitsMod(pieces.rep, m)
    IN  MulMod(MulMod(fr[1], P, m), Q, m)
        = MulMod(fr[2],
                 (MulMod((MulMod(pieces.integer_part, P, m) + A) % m, Q, m)
                  + R) % m, m)

Reconstructs(fr, pieces) ==
    /\ pieces.sign = ""
    /\ \A k \in 1..Len(pieces.nonrep) : pieces.nonrep[k] \in 0..9
    /\ \A k \in 1..Len(pieces.rep) : pieces.rep[k] \in 0..9
    /\ Len(pieces.nonrep) + Len(pieces.rep) <= 21
    /\ \A m \in Moduli : ReconstructsMod(fr, pieces, m)

\* The cycle starts where the remainder that comes back was first seen, and
\* ends where a remainder comes back for the first time
StartsWhereFirstSeen(fr, pieces) ==
    LET r == fr[1] % fr[2]
        start == Len(pieces.nonrep)
        end == Len(pieces.nonrep) + Len(pieces.rep)
    IN  /\ RefRemainder(fr[2], r, start) = RefRemainder(fr[2], r, end)
        /\ \A j \in 0..(end - 1), k \in 0..(end - 1) :
               j # k => RefRemainder(fr[2], r, j) # RefRemainder(fr[2], r, k)

\* A remainder other than 0 left by one of the first steps division steps
\* is one that was seen before
RepeatsWithin(fr, steps) ==
    LET r == fr[1] % fr[2]
    IN  \E k \in 1..steps :
            /\ RefRemainder(fr[2], r, k) # 0
            /\ \E j \in 0..(k - 1) :
                   RefRemainder(fr[2], r, j) = RefRemainder(fr[2], r, k)

CycleReturned(pieces) == pieces.rep # <<>>

DivisionChecked(fr, pieces, steps) ==
    /\ CycleReturned(pieces)
       => Reconstructs(fr, pieces) /\ StartsWhereFirstSeen(fr, pieces)
    /\ CycleReturned(pieces) <=> RepeatsWithin(fr, steps)

\* C26: the pieces of a returned cycle reconstruct the value exactly, the
\* cycle starts where the remainder that comes back was first seen, and a
\* cycle is returned exactly when a remainder comes back within the first
\* 21 division steps
C26_CycleWithin21Steps ==
    pc = "returned"
    => DivisionChecked(result_fraction,
                       fraction_to_decimal_with_period(result_fraction),
                       max_nonrepeat + max_period + 5)

\* C26 as the code has it: the remainder that comes back is met when the
\* next step begins, so it is one left by the first 20 division steps
C26_CycleWithin20Steps ==
    pc = "returned"
    => DivisionChecked(result_fraction,
                       fraction_to_decimal_with_period(result_fraction),
                       max_nonrepeat + max_period + 4)

C26_Witness ==
    /\ pc = "returned"
    /\ result_fraction = <<1, 12>>
    /\ fraction_to_decimal_with_period(result_fraction).nonrep = <<0, 8>>
    /\ fraction_to_decimal_with_period(result_fraction).rep = <<3>>

\* ------------------------------------------- stack and output of the builder

OnlyTypes(elements, types) ==
    \A k \in 1..Len(elements) : elements[k].type \in types

IsValueElement(e) == e.type \in {"NUM", "COMB"}

ValueElements(elements) == SelectSeq(elements, IsValueElement)

SameElement(a, b) == a.type = b.type /\ a.val = b.val

SameElements(s, t) ==
    Len(s) = Len(t) /\ \A k \in 1..Len(s) : SameElement(s[k], t[k])

\* The words of the tokens lo + 1 .. hi
RECURSIVE TokenWords(_, _, _)
TokenWords(toks, lo, hi) ==
    IF lo >= hi THEN <<>>
    ELSE <<toks[lo + 1].val>> \o TokenWords(toks, lo + 1, hi)

\* The value element e is the value of the tokens lo + 1 .. hi: the NUM
\* token itself, the number its words spell, or the combinatorics call that
\* starts there
ComesFrom(e, toks, lo, hi) ==
    /\ lo < hi
    /\ hi <= Len(toks)
    /\ IF toks[lo + 1].type = "NUM" THEN SameElement(e, toks[lo + 1])
       ELSE IF toks[lo + 1].type = "WORD"
       THEN /\ e.type = "NUM"
            /\ \A k \in (lo + 1)..hi : toks[k].type = "WORD"
            /\ \E num \in {parse_mixed_or_decimal_number(
                                TokenWords(toks, lo, hi), 0)} :
                   num.err = "none" /\ num.val = e.val
       ELSE /\ toks[lo + 1].type = "COMB"
            /\ e.type = "COMB"
            /\ e.val[1] = toks[lo + 1].val
            /\ \A k \in (lo + 2)..hi : toks[k].type = "WORD"

BuilderTypes ==
    /\ OnlyTypes(operator_stack, {"OP", "FUNC", "LPAREN"})
    /\ OnlyTypes(output_queue, {"NUM", "OP", "FUNC", "COMB"})
    /\ OnlyTypes(rpn, {"NUM", "OP", "FUNC", "COMB"})

\* A step of the builder leaves the value elements of the output in place
\* and adds at most one, the value of the tokens it consumed; the returned
\* sequence has the value elements of the output
BuilderOrderStep ==
    /\ (pc = "shunting_yard" /\ pc' = "shunting_yard")
       => LET old == ValueElements(output_queue)
              new == ValueElements(output_queue')
          IN  /\ Len(new) \in {Len(old), Len(old) + 1}
              /\ SameElements(old, SubSeq(new, 1, Len(old)))
              /\ Len(new) = Len(old) + 1
                 => ComesFrom(new[Len(new)], tokens, i, i')
              /\ Len(new) = Len(old)
                 => tokens[i + 1].type \notin {"NUM", "COMB"}
    /\ (pc = "shunting_yard" /\ pc' = "evaluate_rpn")
       => SameElements(ValueElements(rpn'), ValueElements(output_queue))

\* C27: the operator stack holds only OP, FUNC and LPAREN entries, the
\* output only NUM, OP, FUNC and COMB elements and never a parenthesis, and
\* the NUM and COMB elements of the postfix sequence are in the order of the
\* values of the input
C27_BuilderInvariant == []BuilderTypes /\ [][BuilderOrderStep]_vars

C27_Witness ==
    /\ pc = "evaluate_rpn"
    /\ expression = <<"pyat", "umnozhit", "na", "sochetaniy", "iz", "odin">>
    /\ Len(rpn) = 3
    /\ rpn[1].type = "NUM" /\ rpn[1].val = <<5, 1>>
    /\ rpn[2].type = "COMB" /\ rpn[2].val[1] = "sochetaniy"
    /\ rpn[3].type = "OP" /\ rpn[3].val = "*"

\* ------------------------------------------------- operator after its operands

EndsWithOperator(toks) == toks # <<>> /\ toks[Len(toks)].type = "OP"

\* C28: an input whose last token is a binary operator raises ParseError:
\* calc returns no result for it
C28_TrailingOperator ==
    (pc \in {"returned", "raised"} /\ EndsWithOperator(tokens))
    => pc = "raised" /\ err = "ParseError"

\* ------------------------------------------------- cycle that is not found

\* The division of v neither ends nor shows a cycle in the digits searched
NoCycleFound(v) ==
    /\ ~RefTerminates(v[2])
    /\ RefCycleEnd(v[2], RefNumerator(v), max_nonrepeat + max_period + 4) = 0

\* The word for the denominator d of a fraction
RefDenominatorWords(d) ==
    IF d \in {2, 3, 4, 5, 7, 9} THEN ordinal_name_for_denominator(d)
    ELSE SubSeq(int_to_words(d), 1, Len(int_to_words(d)) - 1)
         \o <<int_to_words(d)[Len(int_to_words(d))] \o "-yh">>

\* '<numerator words> <denominator word>' of the fractional part of v
RefFractionWords(v) ==
    int_to_words(RefNumerator(v)) \o RefDenominatorWords(v[2])

\* C29 as stated: a result whose cycle is not found is rendered
\* '<integer> i <numerator words> <denominator word>'
C29_IntegerAndFraction ==
    (pc = "returned" /\ NoCycleFound(result_fraction))
    => result_text = RefWholeWords(result_fraction) \o <<"i">>
                     \o RefFractionWords(result_fraction)

\* C29: a result whose cycle is not found is rendered as the fraction
\* '<numerator words> <denominator word>' of its exact fractional part,
\* after '<integer> i' when the integer part is not 0
C29_FractionForm ==
    (pc = "returned" /\ NoCycleFound(result_fraction))
    => result_text
       = (IF RefWhole(result_fraction) = 0 THEN <<>>
          ELSE int_to_words(RefWhole(result_fraction)) \o <<"i">>)
         \o RefFractionWords(result_fraction)

C29_Witness ==
    /\ pc = "returned"
    /\ result_fraction = <<47, 23>>
    /\ result_text = <<"dva", "i", "odin", "dvadtsat", "tri-yh">>

\* ------------------------------------------------------ call without 'po K'

\* n! as a product
RECURSIVE RefProduct(_)
RefProduct(n) == IF n <= 1 THEN 1 ELSE n * RefProduct(n - 1)

\* The input is a call of some kind on n without 'po K'
IsCallWithoutK(words, n) == \E kind \in COMBINATORICS : words = CombInput(kind, n)

\* calc on such a call: the element built has no k, nothing is raised, and
\* the result is n!
CallWithoutK(n) ==
    /\ pc # "raised"
    /\ pc = "evaluate_rpn"
       => /\ Len(rpn) = 1
          /\ rpn[1].type = "COMB"
          /\ rpn[1].val[2] = <<n, 1>>
          /\ rpn[1].val[3] = None
    /\ pc \in {"render", "returned"} => result_fraction = <<RefProduct(n), 1>>
    /\ pc = "returned" => result_text = int_to_words(RefProduct(n))

\* C30: a combinatorics call without 'po K' is n! whatever its kind, and
\* raises no error
C30_WithoutKIsFactorial ==
    \A n \in 0..MaxN : IsCallWithoutK(expression, n) => CallWithoutK(n)

C30_Witness ==
    /\ pc = "returned"
    /\ expression = <<"sochetaniy", "iz", "pyat">>
    /\ result_fraction = <<120, 1>>
    /\ result_text = <<"sto", "dvadtsat">>

\* ------------------------------------------------------------ foreign words

\* The words calc knows: numerals, the conjunction, the words of the
\* phrases, the filler, "pi" and "po"
Vocabulary ==
    DOMAIN SIMPLE_NUM \cup DOMAIN TENS \cup DOMAIN HUNDREDS \cup DOMAIN SCALES
    \cup DOMAIN DECIMAL_DENOMINATORS \cup DOMAIN ORDINAL_DENOMINATORS
    \cup {c \o ENDINGS[e] : c \in DOMAIN SIMPLE_NUM, e \in 1..Len(ENDINGS)}
    \cup UNION {{PHRASE_TOKENS[p][q] : q \in 1..Len(PHRASE_TOKENS[p])} :
                  p \in 1..Len(PHRASE_TOKENS)}
    \cup FILLER_WORDS \cup {"i", "pi", "po"}

HasForeignWord(words) ==
    \E k \in 1..Len(words) : words[k] \notin Vocabulary

\* C10: an input with a word outside the vocabulary is rejected wherever the
\* word stands: calc never returns a text for it
C10_ForeignWordRejected == HasForeignWord(expression) => pc # "returned"

====
